---- MODULE Spec2Model ----
(***************************************************************************)
(* A model of the Jarvis assistant core: the short-term conversation       *)
(* buffer (memory/short_term.py), the conversation tables of the data      *)
(* store (storage/supabase_client.py), voice truncation and the tool loop  *)
(* of the agent (agent/core.py) and the relevance ranking of facts.        *)
(***************************************************************************)
EXTENDS Integers, Sequences, FiniteSets, TLC

VARIABLES
    max_messages,          \* ShortTermMemory.max_messages (settings.max_conversation_messages)
    max_response_length,   \* settings.max_response_length
    current_user,          \* JarvisAgent.current_user
    tool_registry,         \* JarvisAgent.tool_registry
    tool_definitions,      \* JarvisAgent.tool_definitions
    db_users,              \* table "users", by id
    db_facts,              \* table "facts", in insertion (created_at) order: row i has id i
    db_preferences,        \* table "preferences": one row per (user_id, category, key)
    now,                   \* datetime.utcnow(), in days
    h_turn,                \* history: what the last process() call did
    h_session,             \* history: what the last start_session() or end_session() call did
    h_relevant,            \* history: the get_relevant_facts call the last step made, if it made one
    store_calls,           \* per session: its store call in flight between two statements, if any
    h_store,               \* history: the preference writes the store applied, the last read
    db_reminders,          \* table "reminders", in insertion order
    h_reminder,            \* history: what the last SetReminderTool.execute call did
    current_conversation,  \* ShortTermMemory.current_conversation
    message_buffer,        \* ShortTermMemory._message_buffer
    db_conversations,      \* table "conversations": row i has id i
    db_messages,           \* table "messages", in insertion (created_at) order: row i has id i
    h_appended,            \* history: every message add_message appended since the conversation was opened
    h_opened_by,           \* history: "start", "load" or "none"
    h_added,               \* history: the number of add_message calls so far
    h_ended                \* history: what the last end_conversation closed

stm_vars == <<max_messages, current_conversation, message_buffer, db_conversations,
              db_messages, h_appended, h_opened_by, h_added, h_ended>>

agent_vars == <<max_response_length, current_user, tool_registry, tool_definitions,
                db_users, h_turn, h_session>>

calls_vars == <<store_calls, h_store>>

reminder_vars == <<db_reminders, h_reminder>>

ltm_vars == <<db_facts, db_preferences, now, h_relevant, calls_vars, reminder_vars>>

vars == <<stm_vars, agent_vars, ltm_vars>>

----------------------------------------------------------------------------
(* Bounds of the model *)

MaxWindow == 2       \* max_messages is drawn from 0..MaxWindow
MaxAdds == 3         \* add_message calls in a behaviour
MaxConvs == 2        \* rows of table "conversations"
MaxRows == 4         \* rows of table "messages"
MaxFacts == 3        \* rows of table "facts"
MaxRefs == 1         \* update_fact_reference calls in a behaviour
MaxDay == 7          \* the last day of the clock
MaxLimit == 2        \* get_relevant_facts is called with limit in 0..MaxLimit
MaxBudget == 4       \* the voice budget max_response_length ranges over 0..MaxBudget
MaxTextLen == 5      \* a reply of the completion service has at most MaxTextLen characters
MaxCalls == 2        \* a completion carries at most MaxCalls tool calls
MaxTurns == 2        \* process() calls in a behaviour of the agent
MaxItems == 2        \* an extraction answer carries at most MaxItems facts and preferences
MaxWrites == 3       \* set_preference calls in a behaviour
MaxRefCalls == 3     \* two-statement update_fact_reference calls in a behaviour
MaxReminderCalls == 2 \* SetReminderTool.execute calls in a behaviour
MaxCountCalls == 3   \* increment_conversation_count calls in a behaviour

----------------------------------------------------------------------------
(* Values *)

\* Python's None for an object reference
None == [none |-> TRUE]

\* Message.id / Conversation.id before the store assigns one
NoId == 0

\* Python's None for an Optional[str]
NoneStr == "None"

\* the sessions (Lambda invocations) that may run at the same time
Sessions == {"s1", "s2"}

\* settings.default_user_id
DefaultUserId == "default-family-user"

\* settings.max_conversation_messages and settings.max_response_length by default
DefaultMaxMessages == 20
DefaultMaxResponseLength == 300

Users == {DefaultUserId, "u1", "u2"}

\* Python's {}
EmptyDict == <<>>

\* a character string is a sequence of one-character strings
Text(s) == [text |-> s]

\* Message(role=..., content=..., tool_name=..., tool_call_id=...)
Message(role, content, tool_name, tool_call_id) ==
    [id |-> NoId, role |-> role, content |-> content,
     tool_name |-> tool_name, tool_call_id |-> tool_call_id]

\* Conversation(id=..., user_id=..., alexa_session_id=..., started_at=...)
Conversation(id, user_id, alexa_session_id, messages, ended_at, summary) ==
    [id |-> id, user_id |-> user_id, alexa_session_id |-> alexa_session_id,
     messages |-> messages, ended_at |-> ended_at, summary |-> summary]

----------------------------------------------------------------------------
(* Python sequence helpers *)

\* s[-n:] for n >= 0: the last n elements; s[-0:] is s[0:], the whole list
SliceLast(s, n) ==
    IF n = 0 \/ n >= Len(s) THEN s
    ELSE SubSeq(s, Len(s) - n + 1, Len(s))

\* s[:n] for n >= 0
SliceFirst(s, n) ==
    IF n >= Len(s) THEN s ELSE SubSeq(s, 1, n)

----------------------------------------------------------------------------
(* The data store: conversations and messages *)

StoreFaults == {"none", "update", "insert"}

\* SupabaseStorage.create_conversation: the inserted row and the object returned
CreateConversationRow(user_id, alexa_session_id) ==
    [user_id |-> user_id, alexa_session_id |-> alexa_session_id,
     ended_at |-> NoneStr, summary |-> NoneStr, message_count |-> 0]

\* the rows save_conversation inserts: the messages of the object that have no id
NewMessageRows(conversation) ==
    LET unsaved == SelectSeq(conversation.messages, LAMBDA m : m.id = NoId)
        Row(m) == [conversation_id |-> conversation.id, role |-> m.role,
                   content |-> m.content, tool_name |-> m.tool_name,
                   tool_call_id |-> m.tool_call_id]
    IN [i \in DOMAIN unsaved |-> Row(unsaved[i])]

\* SupabaseStorage.save_conversation, first statement: update of the conversation row
SaveConversationUpdate(rows, conversation) ==
    [i \in DOMAIN rows |->
        IF i = conversation.id
        THEN [rows[i] EXCEPT !.ended_at = conversation.ended_at,
                             !.summary = conversation.summary,
                             !.message_count = Len(conversation.messages)]
        ELSE rows[i]]

\* SupabaseStorage.save_conversation, second statement: insert of the new messages
SaveConversationInsert(rows, conversation) ==
    IF conversation.messages # <<>> /\ NewMessageRows(conversation) # <<>>
    THEN rows \o NewMessageRows(conversation)
    ELSE rows

\* table "conversations" after save_conversation; fault names the statement that raises
SavedConversations(conversation, fault) ==
    IF fault = "update" THEN db_conversations
    ELSE SaveConversationUpdate(db_conversations, conversation)

\* table "messages" after save_conversation
SavedMessages(conversation, fault) ==
    IF fault = "none" THEN SaveConversationInsert(db_messages, conversation)
    ELSE db_messages

\* the ids of the message rows of a conversation, in created_at order
RECURSIVE MessageIdsOf(_, _)
MessageIdsOf(conversation_id, upto) ==
    IF upto = 0 THEN <<>>
    ELSE MessageIdsOf(conversation_id, upto - 1) \o
         (IF db_messages[upto].conversation_id = conversation_id THEN <<upto>> ELSE <<>>)

\* SupabaseStorage.get_conversation: None when the row is missing or a query raises
GetConversation(conversation_id, fault) ==
    IF fault # "none" \/ conversation_id \notin DOMAIN db_conversations THEN None
    ELSE LET row == db_conversations[conversation_id]
             Msg(i) == [id |-> i, role |-> db_messages[i].role,
                        content |-> db_messages[i].content,
                        tool_name |-> db_messages[i].tool_name,
                        tool_call_id |-> db_messages[i].tool_call_id]
         IN Conversation(conversation_id, row.user_id, row.alexa_session_id,
                         [i \in DOMAIN MessageIdsOf(conversation_id, Len(db_messages)) |->
                             Msg(MessageIdsOf(conversation_id, Len(db_messages))[i])],
                         row.ended_at, row.summary)

----------------------------------------------------------------------------
(* Short-term memory *)

\* ShortTermMemory.add_message on an open conversation: append, then trim
TrimmedMessages(messages, message) ==
    LET appended == Append(messages, message)
    IN IF Len(appended) > max_messages
       THEN SliceLast(appended, max_messages)
       ELSE appended

\* ShortTermMemory.start_conversation
start_conversation(user_id, alexa_session_id, fault) ==
    /\ Len(db_conversations) < MaxConvs
    /\ IF fault # "none"
       THEN \* create_conversation raises before anything is assigned
            UNCHANGED stm_vars
       ELSE /\ db_conversations' =
                  Append(db_conversations, CreateConversationRow(user_id, alexa_session_id))
            /\ current_conversation' =
                  Conversation(Len(db_conversations) + 1, user_id, alexa_session_id,
                               <<>>, NoneStr, NoneStr)
            /\ message_buffer' = <<>>
            /\ h_appended' = <<>>
            /\ h_opened_by' = "start"
            /\ UNCHANGED <<max_messages, db_messages, h_added, h_ended>>

\* ShortTermMemory.load_conversation
load_conversation(conversation_id, fault) ==
    LET conversation == GetConversation(conversation_id, fault)
    IN IF conversation # None
       THEN /\ current_conversation' = conversation
            /\ message_buffer' = <<>>
            /\ h_appended' = <<>>
            /\ h_opened_by' = "load"
            /\ UNCHANGED <<max_messages, db_conversations, db_messages, h_added, h_ended>>
       ELSE UNCHANGED stm_vars

\* add_message recording nothing
StmAddNothing(m, message) == m

\* ShortTermMemory.add_message on the memory m = (conversation, buffer, appended):
\* nothing is recorded when no conversation is open
StmAdd(m, message) ==
    IF m.conversation # None
    THEN [conversation |-> [m.conversation EXCEPT
                               !.messages = TrimmedMessages(m.conversation.messages, message)],
          buffer |-> Append(m.buffer, message),
          appended |-> Append(m.appended, message)]
    ELSE m

\* the short-term memory as it stands
StmNow ==
    [conversation |-> current_conversation, buffer |-> message_buffer,
     appended |-> h_appended]

\* ShortTermMemory.add_message
add_message(role, content, tool_name, tool_call_id) ==
    LET m == StmAdd(StmNow, Message(role, content, tool_name, tool_call_id))
    IN /\ h_added < MaxAdds
       /\ h_added' = h_added + 1
       /\ current_conversation' = m.conversation
       /\ message_buffer' = m.buffer
       /\ h_appended' = m.appended
       /\ UNCHANGED <<max_messages, db_conversations, db_messages, h_opened_by, h_ended>>

\* ShortTermMemory.save_progress
save_progress(fault) ==
    IF current_conversation # None /\ message_buffer # <<>>
    THEN /\ Len(SavedMessages(current_conversation, "none")) <= MaxRows
         /\ db_conversations' = SavedConversations(current_conversation, fault)
         /\ db_messages' = SavedMessages(current_conversation, fault)
         /\ message_buffer' = IF fault = "none" THEN <<>> ELSE message_buffer
         /\ UNCHANGED <<max_messages, current_conversation, h_appended,
                        h_opened_by, h_added, h_ended>>
    ELSE UNCHANGED stm_vars

\* ShortTermMemory.end_conversation
end_conversation(summary, fault) ==
    IF current_conversation = None
    THEN UNCHANGED stm_vars
    ELSE LET closing == [current_conversation EXCEPT !.ended_at = "utcnow",
                                                     !.summary = summary]
         IN /\ Len(SavedMessages(closing, "none")) <= MaxRows
            /\ db_conversations' = SavedConversations(closing, fault)
            /\ db_messages' = SavedMessages(closing, fault)
            /\ current_conversation' = None
            /\ message_buffer' = <<>>
            /\ h_ended' = [id |-> closing.id, appended |-> h_appended,
                           opened_by |-> h_opened_by, fault |-> fault]
            /\ h_appended' = <<>>
            /\ h_opened_by' = "none"
            /\ UNCHANGED <<max_messages, h_added>>

----------------------------------------------------------------------------
(* Character strings: str.lower(), str.split() *)

\* str.lower() on one character
LowerChar(c) ==
    CASE c = "A" -> "a" [] c = "B" -> "b" [] c = "C" -> "c" [] c = "D" -> "d"
      [] OTHER -> c

\* str.lower()
StrLower(s) == [i \in DOMAIN s |-> LowerChar(s[i])]

\* str.split(): the maximal runs of non-whitespace characters, in order
RECURSIVE SplitFrom(_, _)
SplitFrom(s, word) ==
    IF s = <<>> THEN (IF word = <<>> THEN <<>> ELSE <<word>>)
    ELSE IF Head(s) = " "
         THEN (IF word = <<>> THEN <<>> ELSE <<word>>) \o SplitFrom(Tail(s), <<>>)
         ELSE SplitFrom(Tail(s), Append(word, Head(s)))

StrSplit(s) == SplitFrom(s, <<>>)

\* set(seq)
SetOf(seq) == {seq[i] : i \in DOMAIN seq}

----------------------------------------------------------------------------
(* The data store: facts, and their relevance to a context *)

\* UserFact.last_referenced = None
NoTime == -1

OverlapWeight == 2     \* score += len(overlap) * 2
CriticalBoost == 5     \* Importance.CRITICAL
HighBoost == 3         \* Importance.HIGH
RecentBoost == 2       \* referenced recently
RecentDays == 7        \* days_ago < 7
FetchLimit == 100      \* get_facts(user_id, limit=100)

Importances == {"low", "normal", "high", "critical"}

\* SupabaseStorage.add_fact: the inserted row
FactRow(user_id, fact, category, importance, source_conversation) ==
    [user_id |-> user_id, fact |-> fact, category |-> category,
     importance |-> importance, source_conversation |-> source_conversation,
     last_referenced |-> NoTime, reference_count |-> 0]

\* SupabaseStorage._row_to_fact
RowToFact(id) == [id |-> id] @@ db_facts[id]

\* the ids of a user's fact rows, most recently created first
RECURSIVE FactIdsDesc(_, _)
FactIdsDesc(user_id, upto) ==
    IF upto = 0 THEN <<>>
    ELSE (IF db_facts[upto].user_id = user_id THEN <<upto>> ELSE <<>>)
         \o FactIdsDesc(user_id, upto - 1)

\* SupabaseStorage.get_facts(user_id, limit=limit): [] when the query raises
GetFacts(user_id, limit, fault) ==
    IF fault THEN <<>>
    ELSE LET ids == SliceFirst(FactIdsDesc(user_id, Len(db_facts)), limit)
         IN [i \in DOMAIN ids |-> RowToFact(ids[i])]

\* Score without the case folding of the two texts
ScoreCaseSensitive(fact, context) ==
    LET overlap == SetOf(StrSplit(context)) \cap SetOf(StrSplit(fact.fact))
    IN Cardinality(overlap) * OverlapWeight
       + (IF fact.importance = "critical" THEN CriticalBoost
          ELSE IF fact.importance = "high" THEN HighBoost ELSE 0)
       + (IF fact.last_referenced # NoTime /\ now - fact.last_referenced < RecentDays
          THEN RecentBoost ELSE 0)

\* the score get_relevant_facts gives one fact
Score(fact, context) ==
    LET context_words == SetOf(StrSplit(StrLower(context)))
        fact_words == SetOf(StrSplit(StrLower(fact.fact)))
        overlap == context_words \cap fact_words
        importance_boost ==
            IF fact.importance = "critical" THEN CriticalBoost
            ELSE IF fact.importance = "high" THEN HighBoost
            ELSE 0
        recent_boost ==
            IF fact.last_referenced # NoTime /\ now - fact.last_referenced < RecentDays
            THEN RecentBoost ELSE 0
    IN Cardinality(overlap) * OverlapWeight + importance_boost + recent_boost

\* the (score, fact) pairs with score > 0, in fetch order
RECURSIVE ScoredFacts(_, _)
ScoredFacts(all_facts, context) ==
    IF all_facts = <<>> THEN <<>>
    ELSE LET score == Score(Head(all_facts), context)
         IN (IF score > 0 THEN <<[score |-> score, fact |-> Head(all_facts)]>> ELSE <<>>)
            \o ScoredFacts(Tail(all_facts), context)

\* an insertion that puts x before the elements of equal score
RECURSIVE InsertBeforeEqual(_, _)
InsertBeforeEqual(sorted, x) ==
    IF sorted = <<>> THEN <<x>>
    ELSE IF Head(sorted).score > x.score
         THEN <<Head(sorted)>> \o InsertBeforeEqual(Tail(sorted), x)
         ELSE <<x>> \o sorted

\* list.sort(key=score, reverse=True): stable, equal scores keep their order
RECURSIVE InsertByScore(_, _)
InsertByScore(sorted, x) ==
    IF sorted = <<>> THEN <<x>>
    ELSE IF Head(sorted).score >= x.score
         THEN <<Head(sorted)>> \o InsertByScore(Tail(sorted), x)
         ELSE <<x>> \o sorted

RECURSIVE SortByScore(_)
SortByScore(scored) ==
    IF scored = <<>> THEN <<>>
    ELSE InsertByScore(SortByScore(SubSeq(scored, 1, Len(scored) - 1)),
                       scored[Len(scored)])

\* SupabaseStorage.get_relevant_facts: the sorted (score, fact) pairs cut at limit
RelevantScored(user_id, context, limit, fault) ==
    LET all_facts == GetFacts(user_id, FetchLimit, fault)
    IN IF all_facts = <<>> THEN <<>>
       ELSE SliceFirst(SortByScore(ScoredFacts(all_facts, context)), limit)

\* the facts get_relevant_facts returns
RelevantFacts(user_id, context, limit, fault) ==
    LET scored == RelevantScored(user_id, context, limit, fault)
    IN [i \in DOMAIN scored |-> scored[i].fact]

\* LongTermMemory.add_fact: Importance(importance) raises on a value outside the
\* enumeration and nothing is stored; storage.add_fact raises on a store fault
add_fact(user_id, fact, category, importance, source_conversation, fault) ==
    /\ Len(db_facts) < MaxFacts
    /\ db_facts' = IF importance \in Importances /\ ~fault
                   THEN Append(db_facts, FactRow(user_id, fact, category, importance,
                                                 source_conversation))
                   ELSE db_facts
    /\ h_relevant' = None
    /\ UNCHANGED <<now, db_preferences, calls_vars, reminder_vars>>

\* the sum of the reference counts of the first n rows
RECURSIVE TotalReferences(_)
TotalReferences(n) ==
    IF n = 0 THEN 0 ELSE db_facts[n].reference_count + TotalReferences(n - 1)

\* update_fact_reference writing the whole row anew
ReferenceResettingFact(fact_id, fault) ==
    /\ fact_id \in DOMAIN db_facts
    /\ db_facts' = IF fault THEN db_facts
                   ELSE [db_facts EXCEPT ![fact_id] =
                            [FactRow(@.user_id, @.fact, "other", "normal", NoneStr)
                                EXCEPT !.last_referenced = now,
                                       !.reference_count = db_facts[fact_id].reference_count + 1]]
    /\ h_relevant' = None
    /\ UNCHANGED <<now, db_preferences, calls_vars, reminder_vars>>

\* SupabaseStorage.update_fact_reference (LongTermMemory.mark_fact_used)
update_fact_reference(fact_id, fault) ==
    /\ fact_id \in DOMAIN db_facts
    /\ TotalReferences(Len(db_facts)) < MaxRefs
    /\ db_facts' = IF fault THEN db_facts
                   ELSE [db_facts EXCEPT ![fact_id].last_referenced = now,
                                         ![fact_id].reference_count = @ + 1]
    /\ h_relevant' = None
    /\ UNCHANGED <<now, db_preferences, calls_vars, reminder_vars>>

\* SupabaseStorage.get_relevant_facts
get_relevant_facts(user_id, context, limit, fault) ==
    LET all_facts == GetFacts(user_id, FetchLimit, fault)
        scored == RelevantScored(user_id, context, limit, fault)
    IN /\ h_relevant' = [user_id |-> user_id, context |-> context, limit |-> limit,
                         fault |-> fault, at |-> now,
                         fetched |-> all_facts,
                         scores |-> [i \in DOMAIN all_facts |-> Score(all_facts[i], context)],
                         result |-> [i \in DOMAIN scored |-> scored[i].fact]]
       /\ UNCHANGED <<db_facts, db_preferences, now, calls_vars, reminder_vars>>

\* time passes
Tick(days) ==
    /\ now + days <= MaxDay
    /\ now' = now + days
    /\ h_relevant' = None
    /\ UNCHANGED <<db_facts, db_preferences, calls_vars, reminder_vars>>

----------------------------------------------------------------------------
(* Tools: the registry, argument parsing and execution *)

StatelessTools == {"get_weather", "calculator", "get_current_time"}
UserTools == {"set_reminder", "get_reminders", "add_to_grocery_list",
              "view_grocery_list", "create_order_request"}

\* tools.get_tool_registry: name -> tool instance, the user tools bound to user_id
get_tool_registry(user_id) ==
    [name \in StatelessTools \cup UserTools |->
        [name |-> name, user_id |-> IF name \in StatelessTools THEN NoneStr ELSE user_id]]

\* tools.get_tool_definitions: the names of the definitions, in order
get_tool_definitions(user_id) ==
    <<"get_weather", "calculator", "get_current_time", "set_reminder", "get_reminders",
      "add_to_grocery_list", "view_grocery_list", "create_order_request">>

\* the parameters of each tool's execute that have no default
RequiredParams(name) ==
    CASE name = "get_weather" -> {"city"}
      [] name = "calculator" -> {"expression"}
      [] name = "set_reminder" -> {"message", "time"}
      [] name = "add_to_grocery_list" -> {"items"}
      [] name = "create_order_request" -> {"order_type", "items"}
      [] OTHER -> {}

\* the parameters of each tool's execute that have a default
OptionalParams(name) ==
    CASE name = "set_reminder" -> {"repeat", "category"}
      [] name = "get_reminders" -> {"hours_ahead"}
      [] name = "create_order_request" -> {"platform"}
      [] OTHER -> {}

\* what a tool can return once its arguments are bound: every execute body catches
\* its own faults; get_current_time has nothing that fails
ToolOutcomes(name) ==
    IF name = "get_current_time" THEN {"success"} ELSE {"success", "failure"}

\* serialized argument payloads a completion may carry
ArgsEmptyObject == "{}"
ArgsExpression == "{\"expression\": \"2+2\"}"
ArgsMalformed == "{\"expression\": "
ArgsArray == "[1, 2]"
ArgumentPayloads == {ArgsEmptyObject, ArgsExpression, ArgsMalformed, ArgsArray}

\* json.loads on these payloads: a dict, a list, or JSONDecodeError
json_loads(arguments) ==
    CASE arguments = ArgsEmptyObject -> [type |-> "dict", keys |-> {}]
      [] arguments = ArgsExpression -> [type |-> "dict", keys |-> {"expression"}]
      [] arguments = ArgsArray -> [type |-> "list", keys |-> {}]
      [] OTHER -> [type |-> "JSONDecodeError", keys |-> {}]

\* try: json.loads(...) except json.JSONDecodeError: without the except clause
ParseArgumentsUncaught(arguments) ==
    IF json_loads(arguments).type = "JSONDecodeError"
    THEN [raised |-> TRUE, value |-> json_loads(arguments)]
    ELSE [raised |-> FALSE, value |-> json_loads(arguments)]

\* try: tool_args = json.loads(...) except json.JSONDecodeError: tool_args = {}
ParseArguments(arguments) ==
    IF json_loads(arguments).type = "JSONDecodeError"
    THEN [raised |-> FALSE, value |-> [type |-> "dict", keys |-> {}]]
    ELSE [raised |-> FALSE, value |-> json_loads(arguments)]

\* tool.execute(**tool_args): TypeError when tool_args is no mapping or does not
\* fit the signature, else what the tool returns
ExecuteTool(name, tool_args, outcome) ==
    IF tool_args.type # "dict"
       \/ ~(RequiredParams(name) \subseteq tool_args.keys)
       \/ ~(tool_args.keys \subseteq RequiredParams(name) \cup OptionalParams(name))
    THEN [raised |-> TRUE, success |-> FALSE]
    ELSE [raised |-> FALSE, success |-> (outcome = "success")]

\* json.dumps of a ToolResult
ResultJson(success) ==
    [json |-> [success |-> success,
               data |-> IF success THEN "data" ELSE NoneStr,
               message |-> IF success THEN "message" ELSE NoneStr,
               error |-> IF success THEN NoneStr ELSE "error"]]

\* json.dumps({"success": False, "error": ...})
FailureJson(error) == [json |-> [success |-> FALSE, error |-> error]]

----------------------------------------------------------------------------
(* Tools: reminders *)

\* datetimes are counted in minutes: timedelta(hours=1), timedelta(days=1) and
\* the hour of "tomorrow" without a time of day
MinutesPerHour == 60
MinutesPerDay == 1440
TomorrowHour == 9

NoMatch == [matched |-> FALSE]

\* what the regular expressions of _parse_time find in time_str.lower().strip():
\* the words present, the number before "minute" and before "hour", and the
\* first clock time (\d{1,2})(?::(\d{2}))?\s*(am|pm)?
TimeStrings == {"in 30 minutes", "in 1 minute", "in 0 minutes", "in a minute",
                "in 99999999999 minutes", "In 2 Hours", "tomorrow", "tomorrow at 9pm",
                "5pm", "12am", "25:00", "soon"}
TimeWords(time_str) ==
    LET none == [minute |-> FALSE, minutes |-> NoMatch, hour |-> FALSE, hours |-> NoMatch,
                 tomorrow |-> FALSE, clock |-> NoMatch]
        number(n) == [matched |-> TRUE, n |-> n, out_of_range |-> FALSE]
        clock(h, m, period) == [matched |-> TRUE, hour |-> h, minute |-> m, period |-> period]
    IN CASE time_str = "in 30 minutes" ->
              [none EXCEPT !.minute = TRUE, !.minutes = number(30), !.clock = clock(30, 0, "")]
         [] time_str = "in 1 minute" ->
              [none EXCEPT !.minute = TRUE, !.minutes = number(1), !.clock = clock(1, 0, "")]
         [] time_str = "in 0 minutes" ->
              [none EXCEPT !.minute = TRUE, !.minutes = number(0), !.clock = clock(0, 0, "")]
         [] time_str = "in a minute" -> [none EXCEPT !.minute = TRUE]
         [] time_str = "in 99999999999 minutes" ->
              [none EXCEPT !.minute = TRUE,
                           !.minutes = [matched |-> TRUE, n |-> 0, out_of_range |-> TRUE],
                           !.clock = clock(99, 0, "")]
         [] time_str = "In 2 Hours" ->
              [none EXCEPT !.hour = TRUE, !.hours = number(2), !.clock = clock(2, 0, "")]
         [] time_str = "tomorrow" -> [none EXCEPT !.tomorrow = TRUE]
         [] time_str = "tomorrow at 9pm" ->
              [none EXCEPT !.tomorrow = TRUE, !.clock = clock(9, 0, "pm")]
         [] time_str = "5pm" -> [none EXCEPT !.clock = clock(5, 0, "pm")]
         [] time_str = "12am" -> [none EXCEPT !.clock = clock(12, 0, "am")]
         [] time_str = "25:00" -> [none EXCEPT !.clock = clock(25, 0, "")]
         [] OTHER -> none

\* "if period == 'pm' and hour != 12: hour += 12 elif period == 'am' and hour == 12: hour = 0"
ClockHour(clock) ==
    IF clock.period = "pm" /\ clock.hour # 12 THEN clock.hour + 12
    ELSE IF clock.period = "am" /\ clock.hour = 12 THEN 0
    ELSE clock.hour

\* datetime.replace(hour=..., minute=..., second=0, microsecond=0) on the day of
\* t: ValueError when the hour or the minute is out of range
ReplaceClock(t, hour, minute) ==
    IF hour > 23 \/ minute > 59 THEN [raised |-> "ValueError", at |-> 0]
    ELSE [raised |-> "none",
          at |-> (t \div MinutesPerDay) * MinutesPerDay + hour * MinutesPerHour + minute]

\* _parse_time giving the call time for every relative time
ParseTimeIgnoringNumber(time_str, t) ==
    IF TimeWords(time_str).minutes.matched \/ TimeWords(time_str).hours.matched
    THEN [raised |-> "none", at |-> t]
    ELSE [raised |-> "ValueError", at |-> 0]

\* SetReminderTool._parse_time, t being its datetime.utcnow(): the datetime, or
\* the exception raised (now + timedelta beyond datetime.max: OverflowError)
parse_time(time_str, t) ==
    LET w == TimeWords(time_str)
        absolute == ReplaceClock(t, ClockHour(w.clock), w.clock.minute)
    IN IF w.minute /\ w.minutes.matched
       THEN (IF w.minutes.out_of_range THEN [raised |-> "OverflowError", at |-> 0]
             ELSE [raised |-> "none", at |-> t + w.minutes.n])
       ELSE IF w.hour /\ w.hours.matched
       THEN (IF w.hours.out_of_range THEN [raised |-> "OverflowError", at |-> 0]
             ELSE [raised |-> "none", at |-> t + w.hours.n * MinutesPerHour])
       ELSE IF w.tomorrow
       THEN (IF w.clock.matched
             THEN ReplaceClock(t + MinutesPerDay, ClockHour(w.clock), w.clock.minute)
             ELSE ReplaceClock(t + MinutesPerDay, TomorrowHour, 0))
       ELSE IF w.clock.matched
       THEN (IF absolute.raised = "none" /\ absolute.at <= t
             THEN [absolute EXCEPT !.at = @ + MinutesPerDay]
             ELSE absolute)
       ELSE [raised |-> "ValueError", at |-> 0]

\* Reminder(user_id=..., message=..., remind_at=..., repeat_pattern=..., category=...)
Reminder(user_id, message, remind_at, repeat, category) ==
    [user_id |-> user_id, message |-> message, remind_at |-> remind_at,
     repeat_pattern |-> IF repeat # "none" THEN repeat ELSE NoneStr,
     category |-> category, is_active |-> TRUE, priority |-> "normal"]

\* SetReminderTool.execute of the tool bound to user_id: t is the clock read by
\* _parse_time, t + advance the clock read by the check against the past;
\* fault: the insert of SupabaseStorage.add_reminder raises
SetReminderExecute(user_id, message, time, repeat, category, minute, advance, fault) ==
    LET t == now * MinutesPerDay + minute
        parsed == parse_time(time, t)
        past == parsed.raised = "none" /\ parsed.at < t + advance
        success == parsed.raised = "none" /\ ~past /\ ~fault
    IN /\ (IF h_reminder = None THEN 0 ELSE h_reminder.number) < MaxReminderCalls
       /\ db_reminders' = IF success
                          THEN Append(db_reminders,
                                      Reminder(user_id, message, parsed.at, repeat, category))
                          ELSE db_reminders
       /\ h_reminder' = [number |-> IF h_reminder = None THEN 1 ELSE h_reminder.number + 1,
                         user_id |-> user_id, message |-> message, time |-> time,
                         called_at |-> t, checked_at |-> t + advance, fault |-> fault,
                         before |-> db_reminders,
                         result |-> [success |-> success,
                                     error |-> IF success THEN NoneStr
                                               ELSE IF parsed.raised = "ValueError"
                                               THEN "Could not understand time"
                                               ELSE IF parsed.raised = "OverflowError"
                                               THEN "Failed to set reminder"
                                               ELSE IF past
                                               THEN "Cannot set reminder in the past"
                                               ELSE "Failed to set reminder"]]
       /\ UNCHANGED <<db_facts, db_preferences, now, h_relevant, calls_vars>>

----------------------------------------------------------------------------
(* The agent: fixed replies and voice truncation *)

\* "I'm not sure how to respond to that."
NotSureReply == <<"I", "'", "m", " ", "n", "o", "t", " ", "s", "u", "r", "e", " ", "h", "o", "w", " ", "t", "o", " ", "r", "e", "s", "p", "o", "n", "d", " ", "t", "o", " ", "t", "h", "a", "t", ".">>
\* "Sorry, I had trouble thinking about that. Could you try again?"
ApologyReply == <<"S", "o", "r", "r", "y", ",", " ", "I", " ", "h", "a", "d", " ", "t", "r", "o", "u", "b", "l", "e", " ", "t", "h", "i", "n", "k", "i", "n", "g", " ", "a", "b", "o", "u", "t", " ", "t", "h", "a", "t", ".", " ", "C", "o", "u", "l", "d", " ", "y", "o", "u", " ", "t", "r", "y", " ", "a", "g", "a", "i", "n", "?">>
\* "Done."
DoneReply == <<"D", "o", "n", "e", ".">>
\* "I completed the task, but had trouble summarizing it."
NoSummaryReply == <<"I", " ", "c", "o", "m", "p", "l", "e", "t", "e", "d", " ", "t", "h", "e", " ", "t", "a", "s", "k", ",", " ", "b", "u", "t", " ", "h", "a", "d", " ", "t", "r", "o", "u", "b", "l", "e", " ", "s", "u", "m", "m", "a", "r", "i", "z", "i", "n", "g", " ", "i", "t", ".">>

Max(a, b) == IF a >= b THEN a ELSE b

\* str.rfind(c): the 0-based index of the last c in s, -1 when there is none
RFind(s, c) ==
    LET at == {i \in DOMAIN s : s[i] = c}
    IN IF at = {} THEN -1 ELSE (CHOOSE i \in at : \A j \in at : j <= i) - 1

\* _truncate_for_voice cutting at a break point at or after half the budget
truncate_from_midpoint(text) ==
    IF Len(text) <= max_response_length THEN text
    ELSE LET truncated == SliceFirst(text, max_response_length)
             break_point == Max(RFind(truncated, "."),
                                Max(RFind(truncated, "?"), RFind(truncated, "!")))
         IN IF break_point >= max_response_length \div 2
            THEN SliceFirst(text, break_point + 1)
            ELSE truncated \o <<".", ".", ".">>

\* _truncate_for_voice keeping half the budget before the ellipsis
truncate_to_half(text) ==
    IF Len(text) <= max_response_length THEN text
    ELSE LET truncated == SliceFirst(text, max_response_length)
             break_point == Max(RFind(truncated, "."),
                                Max(RFind(truncated, "?"), RFind(truncated, "!")))
         IN IF break_point > max_response_length \div 2
            THEN SliceFirst(text, break_point + 1)
            ELSE SliceFirst(text, max_response_length \div 2) \o <<".", ".", ".">>

\* JarvisAgent._truncate_for_voice
truncate_for_voice(text) ==
    IF Len(text) <= max_response_length THEN text
    ELSE LET truncated == SliceFirst(text, max_response_length)
             last_period == RFind(truncated, ".")
             last_question == RFind(truncated, "?")
             last_exclaim == RFind(truncated, "!")
             break_point == Max(last_period, Max(last_question, last_exclaim))
         IN IF break_point > max_response_length \div 2
            THEN SliceFirst(text, break_point + 1)
            ELSE truncated \o <<".", ".", ".">>

\* process() without the truncation step
UntruncatedReply(reply) == reply

\* process(): "if len(reply) > settings.max_response_length: reply = self._truncate_for_voice(reply)"
VoiceReply(reply) ==
    IF Len(reply) > max_response_length THEN truncate_for_voice(reply) ELSE reply

----------------------------------------------------------------------------
(* The agent: sessions and turns *)

\* UserProfile(id=user_id, name="Friend", role=UserRole.ADULT, can_approve_orders=True)
NewProfile(user_id) ==
    [id |-> user_id, name |-> "Friend", role |-> "adult",
     can_approve_orders |-> TRUE, total_conversations |-> 0]

NoFaults == [get_user |-> FALSE, create_user |-> FALSE, update_user |-> FALSE,
             create_conversation |-> FALSE, context |-> FALSE]

\* JarvisAgent.start_session up to the point it returns or raises. get_user
\* answers None when its query raises; create_user raises on a store fault and
\* on an id the table already holds; create_conversation raises on a store fault
StartSessionOutcome(user_id_arg, alexa_session_id, f) ==
    LET user_id == IF user_id_arg = NoneStr THEN DefaultUserId ELSE user_id_arg
        found == IF f.get_user THEN None ELSE db_users[user_id]
        create_raises == found = None /\ (f.create_user \/ db_users[user_id] # None)
        user == IF found = None THEN NewProfile(user_id) ELSE found
        users == IF found = None THEN [db_users EXCEPT ![user_id] = NewProfile(user_id)]
                 ELSE db_users
        log(raised) == [op |-> "start_session", user_id |-> user_id,
                        stored |-> db_users[user_id], create_user |-> found = None,
                        raised |-> raised,
                        returned |-> IF raised THEN None ELSE user]
    IN IF create_raises
       THEN [raised |-> TRUE, opened |-> FALSE, user_id |-> user_id, log |-> log(TRUE),
             current_user |-> current_user, db_users |-> db_users]
       ELSE IF f.create_conversation
       THEN [raised |-> TRUE, opened |-> FALSE, user_id |-> user_id, log |-> log(TRUE),
             current_user |-> user, db_users |-> users]
       ELSE [raised |-> FALSE, opened |-> TRUE, user_id |-> user_id, log |-> log(FALSE),
             current_user |-> user, db_users |-> users,
             conversation |-> Conversation(Len(db_conversations) + 1, user_id,
                                           alexa_session_id, <<>>, NoneStr, NoneStr),
             row |-> CreateConversationRow(user_id, alexa_session_id)]

\* JarvisAgent.start_session
start_session(user_id_arg, alexa_session_id, f) ==
    \E o \in {StartSessionOutcome(user_id_arg, alexa_session_id, f)} :
       /\ Len(db_conversations) < MaxConvs
       /\ current_user' = o.current_user
       /\ db_users' = o.db_users
       /\ h_session' = o.log
       /\ IF o.opened
          THEN /\ current_conversation' = o.conversation
               /\ db_conversations' = Append(db_conversations, o.row)
               /\ message_buffer' = <<>>
               /\ tool_registry' = get_tool_registry(o.user_id)
               /\ tool_definitions' = get_tool_definitions(o.user_id)
               /\ h_appended' = <<>>
               /\ h_opened_by' = "start"
          ELSE UNCHANGED <<current_conversation, db_conversations, message_buffer,
                           tool_registry, tool_definitions, h_appended, h_opened_by>>
       /\ UNCHANGED <<max_messages, max_response_length, db_messages, h_added, h_ended,
                      h_turn, ltm_vars>>

\* ShortTermMemory.get_messages_for_llm
FormatForLlm(conversation) ==
    LET Format(msg) ==
            IF msg.role = "tool"
            THEN [role |-> "tool", content |-> msg.content, tool_call_id |-> msg.tool_call_id]
            ELSE [role |-> msg.role, content |-> msg.content]
    IN IF conversation = None THEN <<>> ELSE [i \in DOMAIN conversation.messages |-> Format(conversation.messages[i])]

\* _build_system_prompt without its except clause: the fault leaves it
BuildSystemPromptUncaught(user, user_input, context_fault) ==
    IF context_fault /\ user # None
    THEN [raised |-> TRUE, prompt |-> None]
    ELSE IF user = None
    THEN [raised |-> FALSE, prompt |-> [template |-> "SYSTEM_PROMPT_BASE"]]
    ELSE [raised |-> FALSE,
          prompt |-> [template |-> "SYSTEM_PROMPT_WITH_CONTEXT", user |-> user.id,
                      facts |-> RelevantFacts(user.id, user_input, 10, FALSE)]]

\* JarvisAgent._build_system_prompt: the base prompt when there is no user or the
\* context cannot be built, else the base prompt with the user's context
BuildSystemPrompt(user, user_input, context_fault) ==
    IF user = None \/ context_fault
    THEN [raised |-> FALSE, prompt |-> [template |-> "SYSTEM_PROMPT_BASE"]]
    ELSE [raised |-> FALSE,
          prompt |-> [template |-> "SYSTEM_PROMPT_WITH_CONTEXT", user |-> user.id,
                      facts |-> RelevantFacts(user.id, user_input, 10, FALSE)]]

\* one round of the loop of _handle_tool_calls, with the except clause of
\* tool.execute removed: the fault leaves the loop
HandleToolCallUncaught(t, registry, tool_call, outcome) ==
    LET parsed == ParseArguments(tool_call.arguments)
        known == tool_call.name \in DOMAIN registry
        run == ExecuteTool(tool_call.name, parsed.value, outcome)
        result_content ==
            IF known THEN ResultJson(run.success)
            ELSE FailureJson("Unknown tool: " \o tool_call.name)
        message == Message("tool", result_content, tool_call.name, tool_call.id)
        m == StmAdd(t, message)
    IN IF parsed.raised \/ (known /\ run.raised)
       THEN [t EXCEPT !.raised = TRUE,
                      !.executed = IF known /\ ~parsed.raised
                                   THEN Append(@, [call |-> tool_call.id,
                                                   name |-> tool_call.name,
                                                   args |-> parsed.value,
                                                   raised |-> run.raised])
                                   ELSE @]
       ELSE [t EXCEPT !.conversation = m.conversation,
                      !.buffer = m.buffer,
                      !.appended = m.appended,
                      !.outgoing = Append(@, [role |-> "tool",
                                              tool_call_id |-> tool_call.id,
                                              content |-> result_content]),
                      !.results = Append(@, result_content),
                      !.executed = IF known
                                   THEN Append(@, [call |-> tool_call.id,
                                                   name |-> tool_call.name,
                                                   args |-> parsed.value,
                                                   raised |-> run.raised])
                                   ELSE @]

\* one round of the loop of _handle_tool_calls: parse the arguments, look the
\* tool up, execute it, record the result in messages and in short-term memory
HandleToolCall(t, registry, tool_call, outcome) ==
    LET parsed == ParseArguments(tool_call.arguments)
        known == tool_call.name \in DOMAIN registry
        run == ExecuteTool(tool_call.name, parsed.value, outcome)
        result_content ==
            IF known
            THEN (IF run.raised THEN FailureJson("TypeError") ELSE ResultJson(run.success))
            ELSE FailureJson("Unknown tool: " \o tool_call.name)
        message == Message("tool", result_content, tool_call.name, tool_call.id)
        m == StmAdd(t, message)
    IN IF parsed.raised
       THEN [t EXCEPT !.raised = TRUE]
       ELSE [t EXCEPT !.conversation = m.conversation,
                      !.buffer = m.buffer,
                      !.appended = m.appended,
                      !.outgoing = Append(@, [role |-> "tool",
                                              tool_call_id |-> tool_call.id,
                                              content |-> result_content]),
                      !.results = Append(@, result_content),
                      !.executed = IF known
                                   THEN Append(@, [call |-> tool_call.id,
                                                   name |-> tool_call.name,
                                                   args |-> parsed.value,
                                                   raised |-> run.raised])
                                   ELSE @]

\* the loop of _handle_tool_calls leaving at the first unknown tool
RECURSIVE RunToolCallsUntilUnknown(_, _, _, _)
RunToolCallsUntilUnknown(t, registry, tool_calls, outcomes) ==
    IF tool_calls = <<>> \/ t.raised THEN t
    ELSE IF Head(tool_calls).name \notin DOMAIN registry
         THEN HandleToolCall(t, registry, Head(tool_calls), Head(outcomes))
         ELSE RunToolCallsUntilUnknown(
                 HandleToolCall(t, registry, Head(tool_calls), Head(outcomes)),
                 registry, Tail(tool_calls), Tail(outcomes))

\* "for tool_call in assistant_message.tool_calls": the calls in list order; a
\* fault that leaves a round leaves the loop
RECURSIVE RunToolCalls(_, _, _, _)
RunToolCalls(t, registry, tool_calls, outcomes) ==
    IF tool_calls = <<>> \/ t.raised THEN t
    ELSE RunToolCalls(HandleToolCall(t, registry, Head(tool_calls), Head(outcomes)),
                      registry, Tail(tool_calls), Tail(outcomes))

\* the assistant message _handle_tool_calls puts on the outgoing list
ToolCallsMessage(response) ==
    [role |-> "assistant", content |-> Text(response.content),
     tool_calls |-> response.tool_calls]

\* _handle_tool_calls returning the follow-up's text whatever it is
HandleToolCallsWithoutDone(m, registry, messages, response, outcomes, followup) ==
    LET t0 == [conversation |-> m.conversation, buffer |-> m.buffer,
               appended |-> m.appended,
               outgoing |-> Append(messages, ToolCallsMessage(response)),
               results |-> <<>>, executed |-> <<>>, raised |-> FALSE]
        t == RunToolCalls(t0, registry, response.tool_calls, outcomes)
        request == [messages |-> t.outgoing, tools |-> <<>>, tool_choice |-> NoneStr]
    IN IF t.raised
       THEN t @@ [requests |-> <<>>, reply |-> <<>>]
       ELSE t @@ [requests |-> <<request>>,
                  reply |-> IF followup.fault THEN NoSummaryReply ELSE followup.content]

\* JarvisAgent._handle_tool_calls: the loop, then the follow-up completion
HandleToolCalls(m, registry, messages, response, outcomes, followup) ==
    LET t0 == [conversation |-> m.conversation, buffer |-> m.buffer,
               appended |-> m.appended,
               outgoing |-> Append(messages, ToolCallsMessage(response)),
               results |-> <<>>, executed |-> <<>>, raised |-> FALSE]
        t == RunToolCalls(t0, registry, response.tool_calls, outcomes)
        request == [messages |-> t.outgoing, tools |-> <<>>, tool_choice |-> NoneStr]
    IN IF t.raised
       THEN t @@ [requests |-> <<>>, reply |-> <<>>]
       ELSE t @@ [requests |-> <<request>>,
                  reply |-> IF followup.fault THEN NoSummaryReply
                            ELSE IF followup.content # <<>> THEN followup.content
                            ELSE DoneReply]

\* JarvisAgent.process from the answer of the first completion request on: m1
\* is the short-term memory holding the user's message, loop what
\* _handle_tool_calls does with the answer
TurnAfterRequest(m1, system_prompt, request, loop, user_input, first, followup, f) ==
    LET in_loop == ~first.fault /\ first.tool_calls # <<>>
        raw == IF first.fault THEN ApologyReply
               ELSE IF in_loop
                    THEN (IF loop.raised THEN ApologyReply ELSE loop.reply)
                    ELSE (IF first.content # <<>> THEN first.content ELSE NotSureReply)
        reply == VoiceReply(raw)
        m2 == IF in_loop
              THEN [conversation |-> loop.conversation, buffer |-> loop.buffer,
                    appended |-> loop.appended]
              ELSE m1
        m3 == StmAdd(m2, Message("assistant", Text(reply), NoneStr, NoneStr))
    IN IF system_prompt.raised
       THEN [memory |-> m1, turn |-> [input |-> user_input, raised |-> TRUE,
                                      context_fault |-> f.context]]
       ELSE [memory |-> m3,
             turn |-> [input |-> user_input, raised |-> FALSE, raw |-> raw, reply |-> reply,
                       context_fault |-> f.context,
                       first |-> first,
                       followup |-> IF in_loop /\ ~loop.raised THEN followup ELSE None,
                       requests |-> <<request>> \o (IF in_loop THEN loop.requests ELSE <<>>),
                       tool_calls |-> IF in_loop THEN first.tool_calls ELSE <<>>,
                       results |-> IF in_loop THEN loop.results ELSE <<>>,
                       executed |-> IF in_loop THEN loop.executed ELSE <<>>,
                       loop_raised |-> in_loop /\ loop.raised]]

\* JarvisAgent.process after the session is ensured: m is the short-term memory,
\* user the current user, registry and definitions the tools of the session
Turn(m, user, registry, definitions, user_input, first, outcomes, followup, f) ==
    LET m1 == StmAdd(m, Message("user", Text(user_input), NoneStr, NoneStr))
        system_prompt == BuildSystemPrompt(user, user_input, f.context)
        messages == <<[role |-> "system", content |-> system_prompt.prompt]>>
                    \o FormatForLlm(m1.conversation)
    IN TurnAfterRequest(m1, system_prompt,
                        [messages |-> messages, tools |-> definitions,
                         tool_choice |-> IF definitions # <<>> THEN "auto" ELSE NoneStr],
                        HandleToolCalls(m1, registry, messages, first, outcomes, followup),
                        user_input, first, followup, f)

\* the session as process() finds it
SessionNow ==
    [current_user |-> current_user, conversation |-> current_conversation,
     tool_registry |-> tool_registry, tool_definitions |-> tool_definitions,
     appended |-> h_appended]

\* the number of process() calls so far
TurnsSoFar == IF h_turn = None THEN 0 ELSE h_turn.number

\* the first completion request of the last process() call faulted
LastTurnFaulted == h_turn # None /\ ~h_turn.raised /\ h_turn.first.fault

\* process() from its first statement on: starting says that a start_session
\* call, of outcome o, comes before the turn (a fault of it leaves process)
ProcessStarting(starting, o, user_input, first, outcomes, followup, f) ==
    LET started == starting /\ o.opened
        m == IF started
             THEN [conversation |-> o.conversation, buffer |-> <<>>, appended |-> <<>>]
             ELSE StmNow
        user == IF starting THEN o.current_user ELSE current_user
        registry == IF started THEN get_tool_registry(o.user_id) ELSE tool_registry
        definitions == IF started THEN get_tool_definitions(o.user_id)
                       ELSE tool_definitions
    IN \E r \in {Turn(m, user, registry, definitions, user_input, first, outcomes,
                      followup, f)} :
          /\ starting => Len(db_conversations) < MaxConvs
          /\ current_user' = user
          /\ db_users' = IF starting THEN o.db_users ELSE db_users
          /\ db_conversations' = IF started THEN Append(db_conversations, o.row)
                                 ELSE db_conversations
          /\ tool_registry' = registry
          /\ tool_definitions' = definitions
          /\ h_opened_by' = IF started THEN "start" ELSE h_opened_by
          /\ h_session' = IF starting THEN o.log ELSE h_session
          /\ IF starting /\ o.raised
             THEN /\ h_turn' = [input |-> user_input, raised |-> TRUE,
                                context_fault |-> FALSE,
                                number |-> TurnsSoFar + 1, before |-> SessionNow]
                  /\ UNCHANGED <<current_conversation, message_buffer, h_appended>>
             ELSE /\ h_turn' = r.turn @@ [number |-> TurnsSoFar + 1,
                                          before |-> SessionNow,
                                          after |-> [current_user |-> user,
                                                     conversation |-> r.memory.conversation,
                                                     tool_registry |-> registry,
                                                     tool_definitions |-> definitions,
                                                     appended |-> r.memory.appended],
                                          after_fault |-> LastTurnFaulted]
                  /\ current_conversation' = r.memory.conversation
                  /\ message_buffer' = r.memory.buffer
                  /\ h_appended' = r.memory.appended
          /\ UNCHANGED <<max_messages, max_response_length, db_messages, h_added,
                         h_ended, ltm_vars>>

\* JarvisAgent.process: start a session for the default user when there is no
\* current user (a fault of start_session leaves process), then the turn
process(user_input, first, outcomes, followup, f) ==
    \E o \in {StartSessionOutcome(NoneStr, NoneStr, f)} :
        ProcessStarting(current_user = None, o, user_input, first, outcomes, followup, f)

----------------------------------------------------------------------------
(* The extractor and the end of a session *)

MinTranscript == 50
MinMessagesToExtract == 4

\* len() of MemoryExtractor._format_conversation: one line "User: ..." or
\* "Assistant: ..." per user or assistant message, joined by newlines
RECURSIVE TranscriptLines(_)
TranscriptLines(messages) ==
    IF messages = <<>> THEN <<>>
    ELSE (IF Head(messages).role = "user"
          THEN <<Len(<<"U", "s", "e", "r", ":", " ">>) + Len(Head(messages).content.text)>>
          ELSE IF Head(messages).role = "assistant"
          THEN <<Len(<<"A", "s", "s", "i", "s", "t", "a", "n", "t", ":", " ">>)
                 + Len(Head(messages).content.text)>>
          ELSE <<>>)
         \o TranscriptLines(Tail(messages))

RECURSIVE SumSeq(_)
SumSeq(s) == IF s = <<>> THEN 0 ELSE Head(s) + SumSeq(Tail(s))

format_conversation_len(conversation) ==
    LET lines == TranscriptLines(conversation.messages)
    IN IF lines = <<>> THEN 0 ELSE SumSeq(lines) + (Len(lines) - 1)

\* a transcript that is never too short
NeverTooShort(conversation) == FALSE

\* "if not conv_text or len(conv_text) < 50"
TranscriptTooShort(conversation) == format_conversation_len(conversation) < MinTranscript

\* str.strip() on the summary texts a completion may carry
BlankText == "  "
str_strip(text) == IF text = BlankText THEN "" ELSE text

\* the loop over the extracted facts counting every item and writing none
SaveFactsWritingNothing(rows, items, faults, conversation) ==
    [rows |-> rows, saved |-> Len(items),
     attempts |-> [i \in DOMAIN items |->
                     [kind |-> "fact", item |-> items[i], fault |-> faults[i], saved |-> TRUE]]]

\* the loop over the extracted facts with one try block around the whole loop:
\* the first item that fails ends it
RECURSIVE SaveFactsUntilFailure(_, _, _, _)
SaveFactsUntilFailure(rows, items, faults, conversation) ==
    IF items = <<>> THEN [rows |-> rows, saved |-> 0, attempts |-> <<>>]
    ELSE LET item == Head(items)
             ok == item.has_fact /\ item.importance \in Importances /\ ~Head(faults)
             rest == SaveFactsUntilFailure(
                        Append(rows, FactRow(conversation.user_id, item.fact, item.category,
                                             item.importance, conversation.id)),
                        Tail(items), Tail(faults), conversation)
         IN IF ok
            THEN [rows |-> rest.rows, saved |-> rest.saved + 1,
                  attempts |-> <<[kind |-> "fact", item |-> item, fault |-> FALSE,
                                  saved |-> TRUE]>> \o rest.attempts]
            ELSE [rows |-> rows, saved |-> 0,
                  attempts |-> <<[kind |-> "fact", item |-> item, fault |-> Head(faults),
                                  saved |-> FALSE]>>]

\* the loop over the extracted facts storing a fact of any importance
RECURSIVE SaveFactsOfAnyImportance(_, _, _, _)
SaveFactsOfAnyImportance(rows, items, faults, conversation) ==
    IF items = <<>> THEN [rows |-> rows, saved |-> 0, attempts |-> <<>>]
    ELSE LET item == Head(items)
             ok == item.has_fact /\ ~Head(faults)
             rest == SaveFactsOfAnyImportance(
                         IF ok
                         THEN Append(rows, FactRow(conversation.user_id, item.fact,
                                                   item.category, item.importance,
                                                   conversation.id))
                         ELSE rows,
                         Tail(items), Tail(faults), conversation)
         IN [rows |-> rest.rows, saved |-> rest.saved + (IF ok THEN 1 ELSE 0),
             attempts |-> <<[kind |-> "fact", item |-> item, fault |-> Head(faults),
                             saved |-> ok]>> \o rest.attempts]

\* the loop "for fact_data in extracted.get('facts', [])": an item without "fact"
\* raises KeyError, LongTermMemory.add_fact raises on an importance outside the
\* enumeration or a store fault; each is caught and the item skipped
RECURSIVE SaveFacts(_, _, _, _)
SaveFacts(rows, items, faults, conversation) ==
    IF items = <<>> THEN [rows |-> rows, saved |-> 0, attempts |-> <<>>]
    ELSE LET item == Head(items)
             ok == item.has_fact /\ item.importance \in Importances /\ ~Head(faults)
             rest == SaveFacts(IF ok
                               THEN Append(rows, FactRow(conversation.user_id, item.fact,
                                                         item.category, item.importance,
                                                         conversation.id))
                               ELSE rows,
                               Tail(items), Tail(faults), conversation)
         IN [rows |-> rest.rows, saved |-> rest.saved + (IF ok THEN 1 ELSE 0),
             attempts |-> <<[kind |-> "fact", item |-> item, fault |-> Head(faults),
                             saved |-> ok]>> \o rest.attempts]

\* set_preference as a plain insert
InsertPreference(rows, row, fault) == IF fault THEN rows ELSE rows \cup {row}

\* SupabaseStorage.set_preference: upsert on (user_id, category, key); a store
\* fault is logged and nothing is written
UpsertPreference(rows, row, fault) ==
    IF fault THEN rows
    ELSE {r \in rows : <<r.user_id, r.category, r.key>> # <<row.user_id, row.category, row.key>>}
         \cup {row}

\* the loop "for pref_data in extracted.get('preferences', [])": an item without
\* "key" raises KeyError, caught, and the item is skipped
RECURSIVE SavePreferences(_, _, _, _)
SavePreferences(rows, items, faults, conversation) ==
    IF items = <<>> THEN [rows |-> rows, attempts |-> <<>>]
    ELSE LET item == Head(items)
             row == [user_id |-> conversation.user_id, category |-> item.category,
                     key |-> item.key, value |-> item.value,
                     source_conversation |-> conversation.id]
             rest == SavePreferences(IF item.has_key
                                     THEN UpsertPreference(rows, row, Head(faults))
                                     ELSE rows,
                                     Tail(items), Tail(faults), conversation)
         IN [rows |-> rest.rows,
             attempts |-> <<[kind |-> "preference", item |-> item, fault |-> Head(faults),
                             saved |-> item.has_key /\ ~Head(faults)]>> \o rest.attempts]

EmptyExtraction == [facts |-> <<>>, preferences |-> <<>>, summary |-> NoneStr]

\* MemoryExtractor.extract_and_save: llm is the answer of the completion service
\* to the extraction request
extract_and_save(conversation, llm, fact_faults, pref_faults) ==
    IF TranscriptTooShort(conversation)
    THEN [requests |-> <<>>, db_facts |-> db_facts, db_preferences |-> db_preferences,
          facts_saved |-> 0, attempts |-> <<>>, extracted |-> EmptyExtraction]
    ELSE IF llm.fault \/ llm.json = "invalid"
    THEN [requests |-> <<"extraction">>, db_facts |-> db_facts,
          db_preferences |-> db_preferences, facts_saved |-> 0, attempts |-> <<>>,
          extracted |-> EmptyExtraction]
    ELSE LET facts == SaveFacts(db_facts, llm.facts, fact_faults, conversation)
             preferences == SavePreferences(db_preferences, llm.preferences, pref_faults,
                                            conversation)
         IN [requests |-> <<"extraction">>, db_facts |-> facts.rows,
             db_preferences |-> preferences.rows,
             facts_saved |-> facts.saved,
             attempts |-> facts.attempts \o preferences.attempts,
             extracted |-> [facts |-> llm.facts, preferences |-> llm.preferences,
                            summary |-> llm.summary]]

\* generate_summary asking for a summary of a transcript of any length
SummaryOfAnyTranscript(conversation, llm) ==
    IF llm.fault \/ llm.content = NoneStr
    THEN [requests |-> <<"summary">>, summary |-> NoneStr]
    ELSE [requests |-> <<"summary">>, summary |-> str_strip(llm.content)]

\* MemoryExtractor.generate_summary: llm is the answer of the completion service
\* to the summary request; content None makes .strip() raise, which is caught
generate_summary(conversation, llm) ==
    IF TranscriptTooShort(conversation)
    THEN [requests |-> <<>>, summary |-> NoneStr]
    ELSE IF llm.fault \/ llm.content = NoneStr
    THEN [requests |-> <<"summary">>, summary |-> NoneStr]
    ELSE [requests |-> <<"summary">>, summary |-> str_strip(llm.content)]

\* the conversation counter left alone
CountNothing(user_id, f) == db_users

\* LongTermMemory.increment_conversation_count: read the profile, add one, write
\* it back; a fault of the read or of the write is logged and nothing is written
increment_conversation_count(user_id, f) ==
    LET user == IF f.get_user THEN None ELSE db_users[user_id]
    IN IF user = None \/ f.update_user THEN db_users
       ELSE [db_users EXCEPT ![user_id] =
                [user EXCEPT !.total_conversations = user.total_conversations + 1]]

\* JarvisAgent.end_session with an open conversation, from the extractor's
\* returns ex (extract_and_save) and gs (generate_summary) up to its own return
EndSessionAfter(extracting, ex, gs, extract_learnings, extraction, summary_llm, save_fault, f) ==
    LET summarizing == extracting /\ ex.extracted.summary \in {NoneStr, ""}
        summary == IF ~extracting THEN NoneStr
                   ELSE IF summarizing THEN gs.summary
                   ELSE ex.extracted.summary
        closing == [current_conversation EXCEPT !.ended_at = "utcnow", !.summary = summary]
    IN [db_facts |-> IF extracting THEN ex.db_facts ELSE db_facts,
        db_preferences |-> IF extracting THEN ex.db_preferences ELSE db_preferences,
        db_conversations |-> SavedConversations(closing, save_fault),
        db_messages |-> SavedMessages(closing, save_fault),
        db_users |-> IF current_user # None
                     THEN increment_conversation_count(current_user.id, f)
                     ELSE db_users,
        log |-> [op |-> "end_session", active |-> TRUE, raised |-> FALSE,
                 before |-> SessionNow,
                 extract_learnings |-> extract_learnings,
                 steps |-> (IF extracting THEN <<"extract_and_save">> ELSE <<>>)
                           \o (IF summarizing THEN <<"generate_summary">> ELSE <<>>)
                           \o <<"save_conversation">>
                           \o (IF current_user # None
                               THEN <<"increment_conversation_count">> ELSE <<>>)
                           \o <<"clear">>,
                 requests |-> (IF extracting THEN ex.requests ELSE <<>>)
                              \o (IF summarizing THEN gs.requests ELSE <<>>),
                 extraction |-> IF extracting /\ ex.requests # <<>> THEN extraction ELSE None,
                 summary_llm |-> IF summarizing /\ gs.requests # <<>> THEN summary_llm ELSE None,
                 facts_saved |-> IF extracting THEN ex.facts_saved ELSE 0,
                 attempts |-> IF extracting THEN ex.attempts ELSE <<>>,
                 extracted |-> IF extracting THEN ex.extracted ELSE None,
                 preferences_before |-> db_preferences,
                 facts_before |-> db_facts,
                 saved |-> closing,
                 save_fault |-> save_fault,
                 increment_fault |-> f.get_user \/ f.update_user,
                 users_before |-> db_users]]

\* end_session extracting whatever extract_learnings and the number of messages
EndSessionAlwaysExtracting(extract_learnings, extraction, fact_faults, pref_faults, summary_llm, save_fault, f) ==
    EndSessionAfter(TRUE,
                    extract_and_save(current_conversation, extraction, fact_faults,
                                     pref_faults),
                    generate_summary(current_conversation, summary_llm),
                    extract_learnings, extraction, summary_llm, save_fault, f)

\* JarvisAgent.end_session with an open conversation, up to its return
EndSessionOutcome(extract_learnings, extraction, fact_faults, pref_faults, summary_llm, save_fault, f) ==
    EndSessionAfter(extract_learnings
                    /\ Len(current_conversation.messages) >= MinMessagesToExtract,
                    extract_and_save(current_conversation, extraction, fact_faults,
                                     pref_faults),
                    generate_summary(current_conversation, summary_llm),
                    extract_learnings, extraction, summary_llm, save_fault, f)

\* end_session without its guard on the open conversation: the counter and the
\* clearing of the session also run when there is no conversation
end_session_unguarded(extract_learnings, extraction, fact_faults, pref_faults, summary_llm, save_fault, f) ==
    /\ h_session' = [op |-> "end_session", active |-> FALSE, raised |-> FALSE,
                     before |-> SessionNow, steps |-> <<>>, requests |-> <<>>]
    /\ db_users' = IF current_user # None
                   THEN increment_conversation_count(current_user.id, f)
                   ELSE db_users
    /\ current_user' = None
    /\ tool_registry' = EmptyDict
    /\ tool_definitions' = <<>>
    /\ current_conversation' = None
    /\ message_buffer' = <<>>
    /\ h_appended' = <<>>
    /\ h_opened_by' = "none"
    /\ UNCHANGED <<max_messages, max_response_length, db_conversations, db_messages,
                   h_added, h_ended, ltm_vars, h_turn>>

\* end_session leaving the conversation and the user in place when it is done
end_session_keeping_session(extract_learnings, extraction, fact_faults, pref_faults, summary_llm, save_fault, f) ==
    IF current_conversation = None
    THEN /\ h_session' = [op |-> "end_session", active |-> FALSE, raised |-> FALSE,
                          before |-> SessionNow, steps |-> <<>>, requests |-> <<>>]
         /\ UNCHANGED <<stm_vars, ltm_vars, max_response_length, current_user,
                        tool_registry, tool_definitions, db_users, h_turn>>
    ELSE \E o \in {EndSessionOutcome(extract_learnings, extraction, fact_faults,
                                      pref_faults, summary_llm, save_fault, f)} :
            /\ h_session' = o.log
            /\ db_facts' = o.db_facts
            /\ db_preferences' = o.db_preferences
            /\ db_conversations' = o.db_conversations
            /\ db_messages' = o.db_messages
            /\ db_users' = o.db_users
            /\ h_ended' = [id |-> current_conversation.id, appended |-> h_appended,
                           opened_by |-> h_opened_by, fault |-> save_fault]
            /\ h_relevant' = None
            /\ UNCHANGED <<max_messages, max_response_length, h_added, now, h_turn,
                           calls_vars, reminder_vars, current_conversation,
                           message_buffer, h_appended, h_opened_by, current_user,
                           tool_registry, tool_definitions>>

\* JarvisAgent.end_session
end_session(extract_learnings, extraction, fact_faults, pref_faults, summary_llm, save_fault, f) ==
    IF current_conversation = None
    THEN /\ h_session' = [op |-> "end_session", active |-> FALSE, raised |-> FALSE,
                          before |-> SessionNow, steps |-> <<>>, requests |-> <<>>]
         /\ UNCHANGED <<stm_vars, ltm_vars, max_response_length, current_user,
                        tool_registry, tool_definitions, db_users, h_turn>>
    ELSE \E o \in {EndSessionOutcome(extract_learnings, extraction, fact_faults,
                                      pref_faults, summary_llm, save_fault, f)} :
            /\ h_session' = o.log
            /\ db_facts' = o.db_facts
            /\ db_preferences' = o.db_preferences
            /\ db_conversations' = o.db_conversations
            /\ db_messages' = o.db_messages
            /\ db_users' = o.db_users
            /\ current_conversation' = None
            /\ message_buffer' = <<>>
            /\ h_ended' = [id |-> current_conversation.id, appended |-> h_appended,
                           opened_by |-> h_opened_by, fault |-> save_fault]
            /\ h_appended' = <<>>
            /\ h_opened_by' = "none"
            /\ current_user' = None
            /\ tool_registry' = EmptyDict
            /\ tool_definitions' = <<>>
            /\ h_relevant' = None
            /\ UNCHANGED <<max_messages, max_response_length, h_added, now, h_turn,
                           calls_vars, reminder_vars>>

----------------------------------------------------------------------------
(* Store calls of sessions running at the same time *)

\* the key of a row of table "preferences"
PreferenceKey(row) == <<row.user_id, row.category, row.key>>

\* LongTermMemory.set_preference and SupabaseStorage.set_preference up to the
\* upsert: the row "data" is built, the statement is not yet sent
SetPreferenceCall(s, user_id, category, key, value, source_conversation) ==
    LET data == [user_id |-> user_id, category |-> category, key |-> key,
                 value |-> value, source_conversation |-> source_conversation]
    IN /\ store_calls[s] = None
       /\ h_store.calls < MaxWrites
       /\ store_calls' = [store_calls EXCEPT ![s] = [op |-> "set_preference", data |-> data]]
       /\ h_store' = [h_store EXCEPT
              !.calls = @ + 1,
              !.overlapped = @ \/ \E t \in Sessions \ {s} :
                                    /\ store_calls[t] # None
                                    /\ store_calls[t].op = "set_preference"
                                    /\ PreferenceKey(store_calls[t].data) = PreferenceKey(data)
                                    /\ store_calls[t].data.value # value]
       /\ UNCHANGED <<db_facts, db_preferences, now, h_relevant, reminder_vars>>

\* SupabaseStorage.set_preference from its upsert on: the store applies the
\* statement, or raises and the fault is logged
SetPreferenceUpsert(s, fault) ==
    /\ store_calls[s] # None
    /\ store_calls[s].op = "set_preference"
    /\ db_preferences' = UpsertPreference(db_preferences, store_calls[s].data, fault)
    /\ store_calls' = [store_calls EXCEPT ![s] = None]
    /\ h_store' = [h_store EXCEPT
           !.writes = IF fault THEN @ ELSE Append(@, store_calls[s].data)]
    /\ UNCHANGED <<db_facts, now, h_relevant, reminder_vars>>

\* what get_preference returns: maybe_single() gives the row or nothing, and
\* raises on more than one row; a fault is logged and None is returned
GetPreferenceValue(rows, user_id, category, key, fault) ==
    LET found == {r \in rows : PreferenceKey(r) = <<user_id, category, key>>}
    IN IF fault \/ Cardinality(found) # 1 THEN NoneStr
       ELSE (CHOOSE r \in found : TRUE).value

\* SupabaseStorage.get_preference
get_preference(s, user_id, category, key, fault) ==
    /\ store_calls[s] = None
    /\ h_store' = [h_store EXCEPT
           !.got = [user_id |-> user_id, category |-> category, key |-> key,
                    fault |-> fault, at |-> Len(h_store.writes),
                    value |-> GetPreferenceValue(db_preferences, user_id, category,
                                                 key, fault)]]
    /\ UNCHANGED <<db_facts, db_preferences, now, h_relevant, store_calls, reminder_vars>>

\* SupabaseStorage.update_fact_reference (LongTermMemory.mark_fact_used) up to
\* the answer of its select: the values of the update are computed from the
\* count read; a fault, or no row for single(), is logged and ends the call
UpdateFactReferenceSelect(s, fact_id, fault) ==
    /\ store_calls[s] = None
    /\ h_store.calls < MaxRefCalls
    /\ store_calls' =
          IF fault \/ fact_id \notin DOMAIN db_facts THEN store_calls
          ELSE [store_calls EXCEPT ![s] =
                   [op |-> "update_fact_reference", fact_id |-> fact_id,
                    last_referenced |-> now,
                    reference_count |-> db_facts[fact_id].reference_count + 1]]
    /\ h_store' = [h_store EXCEPT !.calls = @ + 1]
    /\ UNCHANGED <<db_facts, db_preferences, now, h_relevant, reminder_vars>>

\* SupabaseStorage.update_fact_reference from its update on: the store writes
\* the values computed, or raises and the fault is logged
UpdateFactReferenceUpdate(s, fault) ==
    /\ store_calls[s] # None
    /\ store_calls[s].op = "update_fact_reference"
    /\ db_facts' = IF fault THEN db_facts
                   ELSE [db_facts EXCEPT
                            ![store_calls[s].fact_id].last_referenced =
                                store_calls[s].last_referenced,
                            ![store_calls[s].fact_id].reference_count =
                                store_calls[s].reference_count]
    /\ store_calls' = [store_calls EXCEPT ![s] = None]
    /\ UNCHANGED <<db_preferences, now, h_relevant, h_store, reminder_vars>>

\* the names a session can give a profile
ProfileNames == {"Friend", "Bob"}

\* the columns of a row of table "users" other than the conversation counter
ProfileFields(row) == [id |-> row.id, name |-> row.name, role |-> row.role,
                       can_approve_orders |-> row.can_approve_orders]

\* SupabaseStorage.update_user: every column of the row is written from the
\* profile object passed, the conversation counter included
UpdateUserRow(rows, profile) == [rows EXCEPT ![profile.id] = profile]

\* SupabaseStorage.create_user for the profile start_session builds for an
\* unknown user
CreateUserCall(user_id) ==
    /\ db_users[user_id] = None
    /\ db_users' = [db_users EXCEPT ![user_id] = NewProfile(user_id)]
    /\ UNCHANGED <<stm_vars, max_response_length, current_user, tool_registry,
                   tool_definitions, h_turn, h_session, ltm_vars>>

\* a session updating a profile: get_user, a new name on the object, update_user,
\* with no other call in between
RenameUserCall(s, user_id, name) ==
    /\ store_calls[s] = None
    /\ db_users[user_id] # None
    /\ db_users[user_id].name # name
    /\ db_users' = UpdateUserRow(db_users, [db_users[user_id] EXCEPT !.name = name])
    /\ UNCHANGED <<stm_vars, max_response_length, current_user, tool_registry,
                   tool_definitions, h_turn, h_session, ltm_vars>>

\* LongTermMemory.increment_conversation_count up to the answer of get_user:
\* the profile object read, with one added to its counter; a fault of the read
\* or a missing row ends the call
IncrementGetUser(s, user_id, fault) ==
    /\ store_calls[s] = None
    /\ h_store.calls < MaxCountCalls
    /\ store_calls' =
          IF fault \/ db_users[user_id] = None THEN store_calls
          ELSE [store_calls EXCEPT ![s] =
                   [op |-> "increment_conversation_count",
                    profile |-> [db_users[user_id] EXCEPT
                                    !.total_conversations = @ + 1]]]
    /\ h_store' = [h_store EXCEPT !.calls = @ + 1]
    /\ UNCHANGED <<stm_vars, agent_vars, db_facts, db_preferences, now, h_relevant,
                   reminder_vars>>

\* LongTermMemory.increment_conversation_count from update_user on: the store
\* writes the object, or raises and the fault is logged
IncrementUpdateUser(s, fault) ==
    /\ store_calls[s] # None
    /\ store_calls[s].op = "increment_conversation_count"
    /\ db_users' = IF fault THEN db_users
                   ELSE UpdateUserRow(db_users, store_calls[s].profile)
    /\ store_calls' = [store_calls EXCEPT ![s] = None]
    /\ UNCHANGED <<stm_vars, max_response_length, current_user, tool_registry,
                   tool_definitions, h_turn, h_session, db_facts, db_preferences, now,
                   h_relevant, h_store, reminder_vars>>

----------------------------------------------------------------------------
(* The short-term memory driven directly *)

\* the n-th message of a behaviour: roles alternate, every content is distinct
Letters == <<"a", "b", "c", "d", "e", "f", "g", "h">>
StmMessage(n) == <<IF n % 2 = 1 THEN "user" ELSE "assistant", Text(<<Letters[n]>>)>>
Summaries == {NoneStr, "summary"}

\* the agent before any session
AgentIdle ==
    /\ current_user = None
    /\ tool_registry = EmptyDict
    /\ tool_definitions = <<>>
    /\ db_users = [u \in Users |-> None]
    /\ h_turn = None
    /\ h_session = None

\* the short-term memory and the conversation tables after construction
StmIdle ==
    /\ current_conversation = None
    /\ message_buffer = <<>>
    /\ db_conversations = <<>>
    /\ db_messages = <<>>
    /\ h_appended = <<>>
    /\ h_opened_by = "none"
    /\ h_added = 0
    /\ h_ended = None

\* an empty table of facts
LtmIdle ==
    /\ db_facts = <<>>
    /\ db_preferences = {}
    /\ now = 0
    /\ h_relevant = None
    /\ store_calls = [s \in Sessions |-> None]
    /\ h_store = [writes |-> <<>>, got |-> None, overlapped |-> FALSE, calls |-> 0]
    /\ db_reminders = <<>>
    /\ h_reminder = None

InitStm ==
    /\ max_messages \in 0..MaxWindow
    /\ max_response_length = DefaultMaxResponseLength
    /\ StmIdle
    /\ AgentIdle
    /\ LtmIdle

NextStm ==
    /\ \/ \E f \in {"none", "insert"} : start_conversation("u1", NoneStr, f)
       \/ \E c \in 1..MaxConvs, f \in {"none", "update"} : load_conversation(c, f)
       \/ add_message(StmMessage(h_added + 1)[1], StmMessage(h_added + 1)[2], NoneStr, NoneStr)
       \/ \E f \in StoreFaults : save_progress(f)
       \/ \E s \in Summaries, f \in StoreFaults : end_conversation(s, f)
    /\ UNCHANGED <<agent_vars, ltm_vars>>

SpecStm == InitStm /\ [][NextStm]_vars

----------------------------------------------------------------------------
(* The long-term memory of facts driven directly *)

\* "A b  c a": the words a, b, c
ContextAbc == <<"A", " ", "b", " ", " ", "c", " ", "a">>
\* " d "
ContextD == <<" ", "d", " ">>
Contexts == {ContextAbc, ContextD}

FactInputs ==
    { [user_id |-> "u1", fact |-> <<"x", " ", "y">>, importance |-> "critical"],
      [user_id |-> "u1", fact |-> <<"c", " ", "B", " ", "a">>, importance |-> "normal"],
      [user_id |-> "u1", fact |-> <<"a", " ", "a">>, importance |-> "low"],
      [user_id |-> "u1", fact |-> <<"a", "b", " ", "d">>, importance |-> "high"],
      [user_id |-> "u2", fact |-> <<"a", " ", "b", " ", "c">>, importance |-> "normal"],
      [user_id |-> "u1", fact |-> <<"a">>, importance |-> "urgent"] }

TickDays == {6, 7}

InitFacts ==
    /\ max_messages = DefaultMaxMessages
    /\ max_response_length = DefaultMaxResponseLength
    /\ StmIdle
    /\ AgentIdle
    /\ LtmIdle

NextFacts ==
    /\ \/ \E i \in FactInputs, f \in BOOLEAN :
            /\ \A id \in DOMAIN db_facts : db_facts[id].fact # i.fact
            /\ add_fact(i.user_id, i.fact, "other", i.importance, NoneStr, f)
       \/ \E id \in 1..MaxFacts, f \in BOOLEAN : update_fact_reference(id, f)
       \/ \E u \in {"u1", "u2"}, c \in Contexts, l \in 0..MaxLimit, f \in BOOLEAN :
            get_relevant_facts(u, c, l, f)
       \/ \E d \in TickDays : Tick(d)
    /\ UNCHANGED <<stm_vars, agent_vars>>

SpecFacts == InitFacts /\ [][NextFacts]_vars

----------------------------------------------------------------------------
(* One turn of a fresh agent: any reply text under any small budget *)

\* every text of at most MaxTextLen characters over the alphabet
ReplyAlphabet == {"a", ".", "?", "!"}
ReplyTexts == UNION {[1..n -> ReplyAlphabet] : n \in 0..MaxTextLen}

\* what the completion service can answer: a fault, or a message
Fault == [fault |-> TRUE, content |-> <<>>, tool_calls |-> <<>>]
Reply(content) == [fault |-> FALSE, content |-> content, tool_calls |-> <<>>]
ToolCall(i, name, arguments) ==
    [id |-> "call_" \o ToString(i), name |-> name, arguments |-> arguments]
ToolCalls(tool_calls) == [fault |-> FALSE, content |-> <<>>, tool_calls |-> tool_calls]

UserInput == <<"h", "i">>
TimeCall == <<ToolCall(1, "get_current_time", ArgsEmptyObject)>>

InitVoice ==
    /\ max_messages = DefaultMaxMessages
    /\ max_response_length \in 0..MaxBudget
    /\ StmIdle
    /\ AgentIdle
    /\ LtmIdle

\* what the completion service does in the turn: a fault, a reply, or a call of
\* the time tool followed by a fault or a reply
VoiceCases ==
    {[first |-> Fault, outcomes |-> <<>>, followup |-> Fault]}
    \cup {[first |-> Reply(t), outcomes |-> <<>>, followup |-> Fault] : t \in ReplyTexts}
    \cup {[first |-> ToolCalls(TimeCall), outcomes |-> <<"success">>, followup |-> r] :
            r \in {Fault, ToolCalls(TimeCall)} \cup {Reply(t) : t \in ReplyTexts}}

NextVoice ==
    /\ h_turn = None
    /\ \E c \in VoiceCases : process(UserInput, c.first, c.outcomes, c.followup, NoFaults)

SpecVoice == InitVoice /\ [][NextVoice]_vars

----------------------------------------------------------------------------
(* One turn of an agent: any small batch of tool calls *)

UnknownTool == "order_pizza"
RequestedTools == {"get_current_time", "calculator", UnknownTool}

\* the batches of at most MaxCalls calls, ids by position
CallBatches ==
    UNION { { [i \in 1..n |-> ToolCall(i, shape[i][1], shape[i][2])] :
                shape \in [1..n -> RequestedTools \X ArgumentPayloads] } :
            n \in 1..MaxCalls }

\* what each call of a batch returns if its tool gets to run
OutcomesOf(tool_calls) ==
    { o \in [DOMAIN tool_calls -> {"success", "failure"}] :
        \A i \in DOMAIN tool_calls :
            IF tool_calls[i].name \in StatelessTools \cup UserTools
            THEN o[i] \in ToolOutcomes(tool_calls[i].name)
            ELSE o[i] = "success" }

FollowUps == {Fault, Reply(<<>>), Reply(<<"o", "k">>)}

StoreFaultCases ==
    {NoFaults, [NoFaults EXCEPT !.get_user = TRUE], [NoFaults EXCEPT !.create_user = TRUE],
     [NoFaults EXCEPT !.create_conversation = TRUE], [NoFaults EXCEPT !.context = TRUE]}

InitTools ==
    /\ max_messages = DefaultMaxMessages
    /\ max_response_length = DefaultMaxResponseLength
    /\ StmIdle
    /\ AgentIdle
    /\ LtmIdle

NextTools ==
    /\ h_turn = None
    /\ \/ \E u \in {NoneStr, "u1"}, f \in StoreFaultCases : start_session(u, "session", f)
       \/ \E c \in CallBatches, f \in StoreFaultCases :
            \E o \in OutcomesOf(c), r \in FollowUps : process(UserInput, ToolCalls(c), o, r, f)

SpecTools == InitTools /\ [][NextTools]_vars

----------------------------------------------------------------------------
(* The agent: sessions of turns *)

ShortReply == <<"o", "k">>

\* what the completion service does in a turn
AgentTurnCases ==
    {[first |-> Fault, outcomes |-> <<>>, followup |-> Fault],
     [first |-> Reply(<<>>), outcomes |-> <<>>, followup |-> Fault],
     [first |-> Reply(ShortReply), outcomes |-> <<>>, followup |-> Fault],
     [first |-> ToolCalls(TimeCall), outcomes |-> <<"success">>, followup |-> Fault],
     [first |-> ToolCalls(TimeCall), outcomes |-> <<"success">>, followup |-> Reply(ShortReply)]}

\* items of an extraction answer
FactPeanuts == [has_fact |-> TRUE, fact |-> <<"n", "o", " ", "n", "u", "t", "s">>,
                category |-> "medical", importance |-> "critical"]
FactTea == [has_fact |-> TRUE, fact |-> <<"t", "e", "a">>,
            category |-> "food", importance |-> "normal"]
FactWithoutText == [has_fact |-> FALSE, fact |-> <<>>,
                    category |-> "other", importance |-> "normal"]
FactUrgent == [has_fact |-> TRUE, fact |-> <<"g", "y", "m">>,
               category |-> "other", importance |-> "urgent"]
PrefTea == [has_key |-> TRUE, category |-> "food", key |-> "drink", value |-> "tea"]
PrefCoffee == [has_key |-> TRUE, category |-> "food", key |-> "drink", value |-> "coffee"]
PrefWithoutKey == [has_key |-> FALSE, category |-> "food", key |-> "", value |-> "tea"]

\* what the completion service answers to the extraction request
ExtractionFault ==
    [fault |-> TRUE, json |-> "none", facts |-> <<>>, preferences |-> <<>>,
     summary |-> NoneStr]
ExtractionAnswers ==
    {ExtractionFault,
     [fault |-> FALSE, json |-> "invalid", facts |-> <<>>, preferences |-> <<>>,
      summary |-> NoneStr],
     [fault |-> FALSE, json |-> "object", facts |-> <<FactPeanuts, FactTea>>,
      preferences |-> <<PrefTea>>, summary |-> "Talked about nuts."],
     [fault |-> FALSE, json |-> "object", facts |-> <<FactTea, FactWithoutText>>,
      preferences |-> <<PrefWithoutKey>>, summary |-> NoneStr],
     [fault |-> FALSE, json |-> "object", facts |-> <<FactUrgent, FactTea>>,
      preferences |-> <<PrefTea, PrefCoffee>>, summary |-> ""]}

\* what the completion service answers to the summary request
SummaryFault == [fault |-> TRUE, content |-> NoneStr]
SummaryAnswers ==
    {SummaryFault, [fault |-> FALSE, content |-> NoneStr],
     [fault |-> FALSE, content |-> BlankText], [fault |-> FALSE, content |-> "A short chat."]}

\* the turns of the agent's sessions: a fault, a reply, a tool call and a reply
SessionTurnCases ==
    {c \in AgentTurnCases :
        c.first.fault \/ c.first.content = ShortReply \/ (~c.followup.fault)}

StartFaultCases ==
    {NoFaults, [NoFaults EXCEPT !.get_user = TRUE], [NoFaults EXCEPT !.create_user = TRUE],
     [NoFaults EXCEPT !.create_conversation = TRUE]}

\* the store faults process() can meet: those of start_session only when it
\* starts the session itself
TurnFaultCases ==
    IF current_user = None THEN StoreFaultCases
    ELSE {NoFaults, [NoFaults EXCEPT !.context = TRUE]}

\* the store during end_session: the fault of save_conversation and those of
\* increment_conversation_count
EndStoreCases ==
    {[save |-> "none", f |-> NoFaults],
     [save |-> "update", f |-> NoFaults],
     [save |-> "insert", f |-> NoFaults],
     [save |-> "none", f |-> [NoFaults EXCEPT !.get_user = TRUE]],
     [save |-> "none", f |-> [NoFaults EXCEPT !.update_user = TRUE]]}

\* end_session will reach the extractor's completion requests
ExtractorInReach ==
    /\ current_conversation # None
    /\ Len(current_conversation.messages) >= MinMessagesToExtract
    /\ ~TranscriptTooShort(current_conversation)

\* the ways end_session can go, given what the completion service may answer:
\* the save of any one item may meet a store fault (item 0: none does)
EndCases(extractions, summaries, stores) ==
    {[extract_learnings |-> e, extraction |-> x, summary_llm |-> y, store |-> st,
      fact_faults |-> [i \in DOMAIN x.facts |-> i = ff],
      pref_faults |-> [i \in DOMAIN x.preferences |-> i = pf]] :
        e \in BOOLEAN, ff \in 0..MaxItems, pf \in 0..MaxItems, st \in stores,
        x \in IF ExtractorInReach THEN extractions ELSE {ExtractionFault},
        y \in IF ExtractorInReach THEN summaries ELSE {SummaryFault}}

EndSession(c) ==
    end_session(c.extract_learnings, c.extraction, c.fact_faults, c.pref_faults,
                c.summary_llm, c.store.save, c.store.f)

Init ==
    /\ max_messages = DefaultMaxMessages
    /\ max_response_length = DefaultMaxResponseLength
    /\ StmIdle
    /\ AgentIdle
    /\ LtmIdle

Next ==
    \/ \E u \in {NoneStr, "u1"}, f \in StartFaultCases : start_session(u, "session", f)
    \/ /\ TurnsSoFar < MaxTurns
       /\ \E c \in SessionTurnCases, f \in TurnFaultCases :
             process(UserInput, c.first, c.outcomes, c.followup, f)
    \/ \E c \in EndCases({ExtractionFault}, {SummaryFault}, EndStoreCases) : EndSession(c)

Spec == Init /\ [][Next]_vars

----------------------------------------------------------------------------
(* One session of the agent: every way its end can go *)

NextEnd ==
    \/ h_session = None /\ start_session("u1", "session", NoFaults)
    \/ /\ TurnsSoFar < MaxTurns
       /\ h_session # None
       /\ h_session.op = "start_session"
       /\ \E c \in AgentTurnCases : process(UserInput, c.first, c.outcomes, c.followup, NoFaults)
    \/ /\ h_session # None
       /\ h_session.op = "start_session"
       /\ \E c \in EndCases(ExtractionAnswers, SummaryAnswers, EndStoreCases) : EndSession(c)

SpecEnd == Init /\ [][NextEnd]_vars

----------------------------------------------------------------------------
(* The Alexa request handlers sharing the agent of the process *)

\* the Alexa sessions served by one process, the user of each and what it says
AlexaSessions == {"sA", "sB"}
AlexaUser(session) == IF session = "sA" THEN "u1" ELSE "u2"
Utterance(session) == IF session = "sA" THEN <<"h", "i">> ELSE <<"y", "o">>

\* session.new: the session has sent no request that opened a conversation
IsNewSession(session) ==
    \A id \in DOMAIN db_conversations : db_conversations[id].alexa_session_id # session

\* LaunchRequestHandler.handle: get_agent().start_session(user_id, session_id),
\* then the greeting
LaunchRequest(session, f) ==
    /\ IsNewSession(session)
    /\ start_session(AlexaUser(session), session, f)

\* CatchAllIntentHandler.handle: start the session when it is new or the agent
\* has no current user (a fault of start_session leaves the handler), then
\* agent.process(user_input)
CatchAllIntent(session, first, outcomes, followup, f) ==
    \E o \in {StartSessionOutcome(AlexaUser(session), session, f)} :
        IF (IsNewSession(session) \/ current_user = None) /\ o.raised
        THEN start_session(AlexaUser(session), session, f)
        ELSE ProcessStarting(IsNewSession(session) \/ current_user = None, o,
                             Utterance(session), first, outcomes, followup, f)

\* SessionEndedRequestHandler.handle and CancelOrStopIntentHandler.handle:
\* get_agent().end_session(extract_learnings=True)
SessionEndedRequest(c) ==
    end_session(TRUE, c.extraction, c.fact_faults, c.pref_faults, c.summary_llm,
                c.store.save, c.store.f)

NextLambda ==
    \/ \E s \in AlexaSessions, f \in StartFaultCases : LaunchRequest(s, f)
    \/ /\ TurnsSoFar < MaxTurns
       /\ \E s \in AlexaSessions, c \in SessionTurnCases, f \in StoreFaultCases :
             CatchAllIntent(s, c.first, c.outcomes, c.followup, f)
    \/ \E c \in EndCases({ExtractionFault}, {SummaryFault}, EndStoreCases) :
          SessionEndedRequest(c)

SpecLambda == Init /\ [][NextLambda]_vars

----------------------------------------------------------------------------
(* Sessions running at the same time against one store *)

\* the preferences the sessions write and read
PreferenceKeys == {<<"u1", "food", "drink">>, <<"u1", "food", "snack">>, <<"u2", "food", "drink">>}
PreferenceValues == {"tea", "coffee"}

NextPrefs ==
    /\ \/ \E s \in Sessions, k \in PreferenceKeys, v \in PreferenceValues :
            SetPreferenceCall(s, k[1], k[2], k[3], v, NoneStr)
       \/ \E s \in Sessions, f \in BOOLEAN : SetPreferenceUpsert(s, f)
       \/ \E s \in Sessions, k \in PreferenceKeys, f \in BOOLEAN :
            get_preference(s, k[1], k[2], k[3], f)
    /\ UNCHANGED <<stm_vars, agent_vars>>

SpecPrefs == Init /\ [][NextPrefs]_vars

\* the facts whose references the sessions count
ReferencedFacts ==
    { [user_id |-> "u1", fact |-> <<"x", " ", "y">>, importance |-> "normal"],
      [user_id |-> "u1", fact |-> <<"a">>, importance |-> "high"] }

NextRefs ==
    /\ \/ \E i \in ReferencedFacts :
            /\ \A id \in DOMAIN db_facts : db_facts[id].fact # i.fact
            /\ add_fact(i.user_id, i.fact, "other", i.importance, NoneStr, FALSE)
       \/ \E s \in Sessions, id \in 1..MaxFacts, f \in BOOLEAN :
            UpdateFactReferenceSelect(s, id, f)
       \/ \E s \in Sessions, f \in BOOLEAN : UpdateFactReferenceUpdate(s, f)
    /\ UNCHANGED <<stm_vars, agent_vars>>

SpecRefs == Init /\ [][NextRefs]_vars

\* the profiles of the users under the sessions' calls
NextUsers ==
    \/ \E u \in {"u1", "u2"} : CreateUserCall(u)
    \/ \E s \in Sessions, u \in {"u1", "u2"}, n \in ProfileNames : RenameUserCall(s, u, n)
    \/ \E s \in Sessions, u \in {"u1", "u2"}, f \in BOOLEAN : IncrementGetUser(s, u, f)
    \/ \E s \in Sessions, f \in BOOLEAN : IncrementUpdateUser(s, f)

SpecUsers == Init /\ [][NextUsers]_vars

----------------------------------------------------------------------------
(* One session of the agent over a long-term memory that is read and marked *)

NextMemory ==
    \/ /\ \/ \E i \in ReferencedFacts :
               /\ \A id \in DOMAIN db_facts : db_facts[id].fact # i.fact
               /\ h_session = None
               /\ add_fact(i.user_id, i.fact, "other", i.importance, NoneStr, FALSE)
          \/ \E id \in 1..MaxFacts, f \in BOOLEAN : update_fact_reference(id, f)
          \/ \E c \in Contexts, f \in BOOLEAN : get_relevant_facts("u1", c, MaxLimit, f)
       /\ UNCHANGED <<stm_vars, agent_vars>>
    \/ h_session = None /\ start_session("u1", "session", NoFaults)
    \/ /\ TurnsSoFar < MaxTurns
       /\ h_session # None
       /\ h_session.op = "start_session"
       /\ \E c \in SessionTurnCases :
             process(UserInput, c.first, c.outcomes, c.followup, NoFaults)
    \/ /\ h_session # None
       /\ h_session.op = "start_session"
       /\ \E c \in EndCases(ExtractionAnswers, {SummaryFault},
                             {[save |-> "none", f |-> NoFaults]}) : EndSession(c)

SpecMemory == Init /\ [][NextMemory]_vars

----------------------------------------------------------------------------
(* The reminder tool driven directly *)

\* the minutes of the day at which the tool is called: 10:00 and 23:59
CallMinutes == {600, 1439}

NextReminders ==
    /\ \/ \E u \in {"u1", "u2"}, time \in TimeStrings, minute \in CallMinutes,
             advance \in 0..1, f \in BOOLEAN :
            SetReminderExecute(u, "take medicine", time, "none", "medicine", minute,
                               advance, f)
       \/ \E d \in TickDays : Tick(d)
    /\ UNCHANGED <<stm_vars, agent_vars>>

SpecReminders == Init /\ [][NextReminders]_vars

----------------------------------------------------------------------------
(* Claims about the short-term memory *)

Min(a, b) == IF a <= b THEN a ELSE b

\* C1: whenever a conversation is open, Short-Term Memory holds at most
\* max_messages messages for it, for every max_messages >= 0 and every sequence
\* of start_conversation, load_conversation, add_message, save_progress and
\* end_conversation.
C1_WindowNeverExceedsMax ==
    current_conversation # None =>
        Len(current_conversation.messages) <= max_messages

\* C2: after k add_message calls on a conversation opened by start_conversation
\* with maximum N, the retained log is exactly the last min(k, N) appended
\* messages, in append order.
C2_RetainsLastMinKN ==
    (current_conversation # None /\ h_opened_by = "start") =>
        LET k == Len(h_appended)
            n == Min(k, max_messages)
        IN current_conversation.messages = SubSeq(h_appended, k - n + 1, k)

\* the (role, content) pairs the store holds for a conversation
StoredPairsOf(conversation_id) ==
    {<<db_messages[j].role, db_messages[j].content>> :
        j \in {i \in DOMAIN db_messages : db_messages[i].conversation_id = conversation_id}}

\* C3: once a conversation has been ended with the store working, every message
\* appended during the conversation, evicted from the window or not, is in the
\* store.
C3_EvictedMessagesPersisted ==
    (h_ended # None /\ h_ended.fault = "none") =>
        \A i \in DOMAIN h_ended.appended :
            <<h_ended.appended[i].role, h_ended.appended[i].content>>
                \in StoredPairsOf(h_ended.id)

----------------------------------------------------------------------------
(* Claims about the relevance of facts *)

\* the whitespace-separated words of a text, case-folded: every maximal run of
\* characters other than the space
WordsOf(s) ==
    {StrLower(SubSeq(s, i, j)) : <<i, j>> \in
        {p \in (DOMAIN s) \X (DOMAIN s) :
            /\ p[1] <= p[2]
            /\ \A k \in p[1]..p[2] : s[k] # " "
            /\ (p[1] = 1 \/ s[p[1] - 1] = " ")
            /\ (p[2] = Len(s) \/ s[p[2] + 1] = " ")}}

SharedWords(fact, context) == Cardinality(WordsOf(fact.fact) \cap WordsOf(context))

ReferencedWithinAWeek(fact, today) ==
    fact.last_referenced # NoTime /\ today - fact.last_referenced < 7

\* the score as the claim states it
ClaimedScore(fact, context, today) ==
    2 * SharedWords(fact, context)
    + (IF fact.importance = "critical" THEN 5 ELSE 0)
    + (IF fact.importance = "high" THEN 3 ELSE 0)
    + (IF ReferencedWithinAWeek(fact, today) THEN 2 ELSE 0)

\* the positions of a fact in the list get_relevant_facts returned
PositionsOf(fact) == {a \in DOMAIN h_relevant.result : h_relevant.result[a] = fact}

\* a critical fact sharing no word and a normal fact sharing three words, neither
\* referenced within the week
IsCriticalSharingNone(fact) ==
    /\ fact.importance = "critical"
    /\ SharedWords(fact, h_relevant.context) = 0
    /\ ~ReferencedWithinAWeek(fact, h_relevant.at)

IsNormalSharingThree(fact) ==
    /\ fact.importance = "normal"
    /\ SharedWords(fact, h_relevant.context) = 3
    /\ ~ReferencedWithinAWeek(fact, h_relevant.at)

\* C6: get_relevant_facts scores every fetched fact as 2 x (distinct case-folded
\* whitespace-separated words shared with the query) + 5 if critical + 3 if high
\* + 2 if last referenced fewer than 7 days ago; so a critical fact sharing no
\* word scores 5, a normal fact sharing three words scores 6, and the latter is
\* returned before the former.
C6_ScoreFormula ==
    h_relevant # None =>
        /\ \A i \in DOMAIN h_relevant.fetched :
              h_relevant.scores[i] =
                  ClaimedScore(h_relevant.fetched[i], h_relevant.context, h_relevant.at)
        /\ \A i, j \in DOMAIN h_relevant.fetched :
              (IsCriticalSharingNone(h_relevant.fetched[i])
                  /\ IsNormalSharingThree(h_relevant.fetched[j])) =>
                 /\ h_relevant.scores[i] = 5
                 /\ h_relevant.scores[j] = 6
                 /\ \A a \in PositionsOf(h_relevant.fetched[i]) :
                       \E b \in PositionsOf(h_relevant.fetched[j]) : b < a

\* C6 witness: a query returned both a critical fact sharing no word and a normal
\* fact sharing three words
C6_Witness ==
    /\ h_relevant # None
    /\ \E a, b \in DOMAIN h_relevant.result :
          /\ IsCriticalSharingNone(h_relevant.result[a])
          /\ IsNormalSharingThree(h_relevant.result[b])

\* the score the call computed for a fetched fact
ScoreOf(fact) ==
    h_relevant.scores[CHOOSE i \in DOMAIN h_relevant.fetched : h_relevant.fetched[i] = fact]

\* C7: get_relevant_facts(user, query, limit) returns at most limit facts, each a
\* fetched fact of that user with score > 0, in non-increasing score order, facts
\* of equal score in fetch order (most recent first), and no fetched fact left out
\* scores strictly higher than a returned one.
C7_RankedResult ==
    h_relevant # None =>
        LET result == h_relevant.result
            fetched == h_relevant.fetched
        IN /\ Len(result) <= h_relevant.limit
           /\ \A a \in DOMAIN result :
                 /\ result[a].user_id = h_relevant.user_id
                 /\ \E i \in DOMAIN fetched : fetched[i] = result[a]
                 /\ ScoreOf(result[a]) > 0
           /\ \A a, b \in DOMAIN result :
                 a < b =>
                    /\ result[a] # result[b]
                    /\ ScoreOf(result[a]) >= ScoreOf(result[b])
                    /\ ScoreOf(result[a]) = ScoreOf(result[b]) => result[a].id > result[b].id
           /\ \A i \in DOMAIN fetched :
                 (\A a \in DOMAIN result : result[a] # fetched[i]) =>
                    \A a \in DOMAIN result : h_relevant.scores[i] <= ScoreOf(result[a])

\* C7 witness: a call returned two facts of equal score and left out a fetched
\* fact with a positive score, the store holding a fact of another user
C7_Witness ==
    /\ h_relevant # None
    /\ Len(h_relevant.result) = 2
    /\ ScoreOf(h_relevant.result[1]) = ScoreOf(h_relevant.result[2])
    /\ \E i \in DOMAIN h_relevant.fetched :
          /\ h_relevant.scores[i] > 0
          /\ \A a \in DOMAIN h_relevant.result : h_relevant.result[a] # h_relevant.fetched[i]

----------------------------------------------------------------------------
(* Claims about the voice budget *)

\* a turn went through and gave a reply
TurnReplied == h_turn # None /\ ~h_turn.raised

\* the 1-based position of the rightmost '.', '?' or '!' among the first b
\* characters of text, 0 when there is none
RightmostPunctuation(text, b) ==
    LET at == {i \in 1..Min(b, Len(text)) : text[i] \in {".", "?", "!"}}
    IN IF at = {} THEN 0 ELSE CHOOSE i \in at : \A j \in at : j <= i

Ellipsis == <<".", ".", ".">>

\* C4: with budget B, a reply of length <= B is returned unchanged and a longer
\* one is returned as a string of length <= B + 3; every reply process() returns
\* and every assistant message it appends has length <= B + 3.
C4_ReplyWithinBudgetPlusThree ==
    TurnReplied =>
        /\ Len(h_turn.raw) <= max_response_length => h_turn.reply = h_turn.raw
        /\ Len(h_turn.reply) <= max_response_length + 3
        /\ \A i \in DOMAIN h_appended :
              h_appended[i].role = "assistant" =>
                 Len(h_appended[i].content.text) <= max_response_length + 3

\* C4 witness: a reply longer than the budget came back with exactly B + 3
\* characters and was appended as the assistant message
C4_Witness ==
    /\ TurnReplied
    /\ max_response_length > 0
    /\ Len(h_turn.raw) > max_response_length
    /\ Len(h_turn.reply) = max_response_length + 3
    /\ h_appended[Len(h_appended)].role = "assistant"
    /\ h_appended[Len(h_appended)].content.text = h_turn.reply

\* C5 as stated: for a reply longer than B, if the rightmost sentence-ending
\* punctuation inside the first B characters lies at or after the midpoint of B,
\* the result is the reply cut at that punctuation inclusive; otherwise it is the
\* first B characters followed by an ellipsis.
C5_CutAtOrAfterMidpoint ==
    (TurnReplied /\ Len(h_turn.raw) > max_response_length) =>
        LET p == RightmostPunctuation(h_turn.raw, max_response_length)
        IN IF p > 0 /\ 2 * (p - 1) >= max_response_length
           THEN h_turn.reply = SubSeq(h_turn.raw, 1, p)
           ELSE h_turn.reply = SubSeq(h_turn.raw, 1, max_response_length) \o Ellipsis

\* C5, amended: for a reply longer than B, if the rightmost sentence-ending
\* punctuation inside the first B characters has a 0-based index strictly greater
\* than floor(B / 2), the result is the reply cut at that punctuation inclusive;
\* otherwise it is the first B characters followed by an ellipsis.
C5_CutStrictlyAfterMidpoint ==
    (TurnReplied /\ Len(h_turn.raw) > max_response_length) =>
        LET p == RightmostPunctuation(h_turn.raw, max_response_length)
        IN IF p > 0 /\ p - 1 > max_response_length \div 2
           THEN h_turn.reply = SubSeq(h_turn.raw, 1, p)
           ELSE h_turn.reply = SubSeq(h_turn.raw, 1, max_response_length) \o Ellipsis

\* C5 witness: the rightmost punctuation of a reply longer than B sits at 0-based
\* index exactly floor(B / 2), and the reply came back with the ellipsis
C5_Witness ==
    /\ TurnReplied
    /\ max_response_length > 0
    /\ Len(h_turn.raw) > max_response_length
    /\ RightmostPunctuation(h_turn.raw, max_response_length) - 1 = max_response_length \div 2
    /\ h_turn.reply = SubSeq(h_turn.raw, 1, max_response_length) \o Ellipsis

----------------------------------------------------------------------------
(* Claims about the tool loop *)

\* the turn went through the tool loop
TurnHadToolCalls == TurnReplied /\ h_turn.tool_calls # <<>>

IsKnownTool(name) == name \in DOMAIN tool_registry

\* the message list of the follow-up request: the list the tool loop appended to
OutgoingMessages == h_turn.requests[Len(h_turn.requests)].messages

\* the tool messages of a call on the outgoing message list
ToolMessagesOf(tool_call) ==
    {i \in DOMAIN OutgoingMessages :
        OutgoingMessages[i].role = "tool" /\ OutgoingMessages[i].tool_call_id = tool_call.id}

\* the tool messages of a call recorded in short-term memory
RecordedToolMessagesOf(tool_call) ==
    {i \in DOMAIN h_appended :
        h_appended[i].role = "tool" /\ h_appended[i].tool_call_id = tool_call.id}

\* the executions of a call's tool
ExecutionsOf(tool_call) ==
    {k \in DOMAIN h_turn.executed : h_turn.executed[k].call = tool_call.id}

UnknownToolResult(name) == [json |-> [success |-> FALSE, error |-> "Unknown tool: " \o name]]

\* C8: a call naming a tool that is not in the registry of the session gets a
\* failure result naming the unknown tool, no other call gets it, and every later
\* call of the batch is still looked up and, if known, executed.
C8_UnknownToolFailsAlone ==
    TurnHadToolCalls =>
        LET calls == h_turn.tool_calls
        IN /\ Len(h_turn.results) = Len(calls)
           /\ \A i \in DOMAIN calls :
                 /\ ~IsKnownTool(calls[i].name) <=>
                       h_turn.results[i] = UnknownToolResult(calls[i].name)
                 /\ ~IsKnownTool(calls[i].name) => ExecutionsOf(calls[i]) = {}
                 /\ IsKnownTool(calls[i].name) => Cardinality(ExecutionsOf(calls[i])) = 1

\* C8 witness: the first call of a batch named an unknown tool and the second
\* call's tool was executed and returned success
C8_Witness ==
    /\ TurnHadToolCalls
    /\ Len(h_turn.tool_calls) >= 2
    /\ ~IsKnownTool(h_turn.tool_calls[1].name)
    /\ h_turn.results[1] = UnknownToolResult(h_turn.tool_calls[1].name)
    /\ ExecutionsOf(h_turn.tool_calls[2]) # {}
    /\ h_turn.results[2].json.success

\* C9: a fault raised while executing a tool becomes a failure result recorded as
\* that call's tool message (on the outgoing message list, and in short-term
\* memory when a conversation is open); it does not leave the tool loop, the
\* remaining calls of the batch are processed, and the follow-up completion
\* request is issued.
C9_ToolFaultBecomesFailureResult ==
    TurnHadToolCalls =>
        LET calls == h_turn.tool_calls
        IN /\ ~h_turn.loop_raised
           /\ Len(h_turn.requests) = 2
           /\ Len(h_turn.results) = Len(calls)
           /\ \A i \in DOMAIN calls :
                 (\E k \in ExecutionsOf(calls[i]) : h_turn.executed[k].raised) =>
                    /\ ~h_turn.results[i].json.success
                    /\ \E j \in ToolMessagesOf(calls[i]) :
                          OutgoingMessages[j].content = h_turn.results[i]
                    /\ current_conversation # None =>
                          \E j \in RecordedToolMessagesOf(calls[i]) :
                             h_appended[j].content = h_turn.results[i]
           /\ \A i \in DOMAIN calls :
                 /\ ToolMessagesOf(calls[i]) # {}
                 /\ IsKnownTool(calls[i].name) => ExecutionsOf(calls[i]) # {}

\* C9 witness: the first call's tool raised, the second call's tool ran and
\* returned success, and the follow-up request went out
C9_Witness ==
    /\ TurnHadToolCalls
    /\ Len(h_turn.tool_calls) >= 2
    /\ \E k \in ExecutionsOf(h_turn.tool_calls[1]) : h_turn.executed[k].raised
    /\ \E k \in ExecutionsOf(h_turn.tool_calls[2]) : ~h_turn.executed[k].raised
    /\ h_turn.results[2].json.success
    /\ RecordedToolMessagesOf(h_turn.tool_calls[1]) # {}
    /\ Len(h_turn.requests) = 2

IsMalformed(arguments) == arguments = ArgsMalformed

\* C10: a call whose argument payload is malformed JSON is executed with an
\* empty argument set; the batch goes on: the call yields exactly one tool
\* message (on the outgoing message list, and in short-term memory when a
\* conversation is open) and every later call is processed.
C10_MalformedArgumentsAreEmpty ==
    TurnHadToolCalls =>
        LET calls == h_turn.tool_calls
        IN \A i \in DOMAIN calls :
              IsMalformed(calls[i].arguments) =>
                 /\ ~h_turn.loop_raised
                 /\ Cardinality(ToolMessagesOf(calls[i])) = 1
                 /\ current_conversation # None =>
                       Cardinality(RecordedToolMessagesOf(calls[i])) = 1
                 /\ \A k \in ExecutionsOf(calls[i]) :
                       h_turn.executed[k].args = [type |-> "dict", keys |-> {}]
                 /\ IsKnownTool(calls[i].name) => ExecutionsOf(calls[i]) # {}
                 /\ \A j \in DOMAIN calls :
                       j > i => /\ Cardinality(ToolMessagesOf(calls[j])) = 1
                                /\ j \in DOMAIN h_turn.results
                                /\ IsKnownTool(calls[j].name) =>
                                      ExecutionsOf(calls[j]) # {}

\* C10 witness: the first call carried malformed JSON for a tool without
\* parameters, which ran and returned success, and the second call was processed
C10_Witness ==
    /\ TurnHadToolCalls
    /\ Len(h_turn.tool_calls) >= 2
    /\ IsMalformed(h_turn.tool_calls[1].arguments)
    /\ h_turn.results[1].json.success
    /\ RecordedToolMessagesOf(h_turn.tool_calls[1]) # {}
    /\ ToolMessagesOf(h_turn.tool_calls[2]) # {}

----------------------------------------------------------------------------
(* Claims about the tool loop and the follow-up request *)

\* the position in the batch of the call with this correlation id
CallIndex(id) == CHOOSE i \in DOMAIN h_turn.tool_calls : h_turn.tool_calls[i].id = id

\* the tool rounds of the last turn went through: no fault left the loop
ToolLoopCompleted == TurnHadToolCalls /\ ~h_turn.loop_raised

\* C11: for a completion carrying n tool calls, the assistant message recording
\* all n calls is appended to the outgoing message list first; the calls are
\* then executed one after the other in call-list order, each at most once; and
\* each call gets exactly one tool message, carrying its correlation id and its
\* serialized result, on the outgoing message list and in short-term memory, in
\* the same order.
C11_BatchRecordedInCallOrder ==
    ToolLoopCompleted =>
        LET calls == h_turn.tool_calls
            n == Len(calls)
            out == OutgoingMessages
            base == Len(h_turn.requests[1].messages)
            \* short-term memory after the turn: ..., the n tool messages, the reply
            kept == Len(h_appended) - 1 - n
        IN /\ Len(out) = base + 1 + n
           /\ SubSeq(out, 1, base) = h_turn.requests[1].messages
           /\ out[base + 1].role = "assistant"
           /\ out[base + 1].tool_calls = calls
           /\ \A i \in 1..n :
                 /\ out[base + 1 + i].role = "tool"
                 /\ out[base + 1 + i].tool_call_id = calls[i].id
                 /\ out[base + 1 + i].content = h_turn.results[i]
           /\ \A k \in DOMAIN h_turn.executed :
                 \E i \in 1..n : calls[i].id = h_turn.executed[k].call
           /\ \A k, l \in DOMAIN h_turn.executed :
                 k < l => CallIndex(h_turn.executed[k].call) < CallIndex(h_turn.executed[l].call)
           /\ kept >= 0
           /\ \A i \in 1..n :
                 /\ h_appended[kept + i].role = "tool"
                 /\ h_appended[kept + i].tool_call_id = calls[i].id
                 /\ h_appended[kept + i].content = h_turn.results[i]

\* C11 in a session whose conversation was opened: the same, short-term memory
\* included
C11_InOpenConversation ==
    current_conversation # None => C11_BatchRecordedInCallOrder

\* a batch of two calls went through in an open conversation
C11_Witness ==
    /\ ToolLoopCompleted
    /\ current_conversation # None
    /\ Len(h_turn.tool_calls) = 2
    /\ Len(h_turn.executed) = 2

\* the turn's follow-up request: the second completion request of process()
FollowUpIssued == ToolLoopCompleted /\ h_turn.followup # None

\* at most two completion requests, the second offering no tools, and no tool
\* executed beyond the calls of the first completion
AtMostOneToolRound ==
    TurnReplied =>
        /\ Len(h_turn.requests) <= 2
        /\ Len(h_turn.executed) <= Len(h_turn.tool_calls)
        /\ TurnHadToolCalls =>
              /\ FollowUpIssued
              /\ Len(h_turn.requests) = 2
              /\ h_turn.requests[2].tools = <<>>
              /\ h_turn.requests[2].tool_choice = NoneStr
              /\ h_turn.requests[2].messages = OutgoingMessages

\* C12 as stated: after the calls of a batch exactly one follow-up request goes
\* out, offering no tools; its text is the turn's reply, or the fixed "completed
\* but could not summarize" message when the request faults; a process() call
\* makes at most two completion requests and never a second round of tool calls.
C12_FollowUpTextIsReply ==
    /\ AtMostOneToolRound
    /\ FollowUpIssued =>
          h_turn.reply = (IF h_turn.followup.fault THEN NoSummaryReply
                          ELSE h_turn.followup.content)

\* C12 amended: the same, the reply being the follow-up's text, or the fixed
\* "Done." when that text is empty, or the fixed "completed but could not
\* summarize" message when the request faults, each cut to the voice budget.
C12_FollowUpTextOrDoneIsReply ==
    /\ AtMostOneToolRound
    /\ FollowUpIssued =>
          h_turn.reply = truncate_for_voice(
                            IF h_turn.followup.fault THEN NoSummaryReply
                            ELSE IF h_turn.followup.content = <<>> THEN DoneReply
                            ELSE h_turn.followup.content)

\* C12 witness: the follow-up completion came back with tool calls and no text;
\* no second round ran and the turn answered "Done." cut to the voice budget
C12_Witness ==
    /\ FollowUpIssued
    /\ ~h_turn.followup.fault
    /\ h_turn.followup.tool_calls # <<>>
    /\ h_turn.followup.content = <<>>
    /\ h_turn.raw = DoneReply
    /\ Len(h_turn.requests) = 2
    /\ Len(h_turn.executed) = 1
    /\ max_response_length = MaxBudget

----------------------------------------------------------------------------
(* Claims about faults *)

\* the last process() call found a session and its first completion faulted
TurnFaultedInSession ==
    TurnReplied /\ h_turn.first.fault /\ h_turn.before.current_user # None

UserMessage(text) == Message("user", Text(text), NoneStr, NoneStr)
AssistantMessage(text) == Message("assistant", Text(text), NoneStr, NoneStr)

C14_NoFaultLeavesTheAgent ==
    /\ h_turn # None => ~h_turn.raised
    /\ (h_session # None /\ h_session.op = "end_session") => ~h_session.raised

\* C14 for end_session alone, and for process() in a session already started
C14_NoFaultLeavesAStartedSession ==
    /\ (h_turn # None /\ h_turn.before.current_user # None) => ~h_turn.raised
    /\ (h_session # None /\ h_session.op = "end_session") => ~h_session.raised

----------------------------------------------------------------------------
(* Claims about the end of a session *)

\* a step of end_session
EndSessionStep == h_session' # h_session /\ h_session'.op = "end_session"

\* C15: end_session without an open conversation does nothing: no extraction,
\* no completion request, no write to the store, no increment of the
\* conversation counter, and the session state stays as it was.
C15_IdleEndSessionIsNoOp ==
    [][(EndSessionStep /\ current_conversation = None) =>
          /\ h_session'.steps = <<>>
          /\ h_session'.requests = <<>>
          /\ UNCHANGED <<db_conversations, db_messages, db_users, db_facts, db_preferences>>
          /\ UNCHANGED <<current_user, current_conversation, message_buffer,
                         tool_registry, tool_definitions>>]_vars

\* C15 witness: end_session was called when a user was current and no
\* conversation was open
C15_Witness ==
    /\ h_session # None
    /\ h_session.op = "end_session"
    /\ ~h_session.active
    /\ h_session.before.current_user # None
    /\ current_user = h_session.before.current_user
    /\ current_user.total_conversations = db_users[current_user.id].total_conversations

\* the last operation on the session was an end_session that found a conversation
SessionEnded == h_session # None /\ h_session.op = "end_session" /\ h_session.active

\* the conversation end_session found
EndedConversation == h_session.before.conversation

\* the steps of the extractor
ExtractorSteps == {"extract_and_save", "generate_summary"}

StepsOf(steps) == {steps[i] : i \in DOMAIN steps}

\* C16: ending a session whose conversation has fewer than four messages, or
\* with extract_learnings false, never invokes the extractor (no extraction, no
\* summary request) and the conversation is persisted with no summary.
C16_NoExtractionBelowFourOrWhenDisabled ==
    (SessionEnded /\ (~h_session.extract_learnings
                      \/ Len(EndedConversation.messages) < 4)) =>
        /\ StepsOf(h_session.steps) \cap ExtractorSteps = {}
        /\ h_session.requests = <<>>
        /\ h_session.facts_saved = 0
        /\ db_facts = h_session.facts_before
        /\ "save_conversation" \in StepsOf(h_session.steps)
        /\ h_session.saved.id = EndedConversation.id
        /\ h_session.saved.summary = NoneStr
        /\ h_session.save_fault # "update" =>
              /\ db_conversations[EndedConversation.id].summary = NoneStr
              /\ db_conversations[EndedConversation.id].ended_at # NoneStr

\* C16 witness: a conversation of four messages whose transcript the extractor
\* would take was ended with extract_learnings false and persisted with no
\* summary
C16_Witness ==
    /\ SessionEnded
    /\ ~h_session.extract_learnings
    /\ Len(EndedConversation.messages) >= 4
    /\ ~TranscriptTooShort(EndedConversation)
    /\ h_session.requests = <<>>
    /\ h_session.save_fault = "none"
    /\ db_conversations[EndedConversation.id].summary = NoneStr
    /\ db_conversations[EndedConversation.id].ended_at # NoneStr

\* the same for a conversation of two messages ended with extract_learnings true
C16_WitnessShort ==
    /\ SessionEnded
    /\ h_session.extract_learnings
    /\ Len(EndedConversation.messages) = 2
    /\ h_session.requests = <<>>
    /\ db_conversations[EndedConversation.id].ended_at # NoneStr

\* the rows of a table of facts that belong to a user
FactsOfUser(rows, user_id) == SelectSeq(rows, LAMBDA r : r.user_id = user_id)

\* every completion request end_session made was answered without a fault, and
\* the summary request, if made, with a text that is not blank
ServiceWorked ==
    /\ h_session.extraction # None => ~h_session.extraction.fault
    /\ h_session.summary_llm # None =>
          /\ ~h_session.summary_llm.fault
          /\ h_session.summary_llm.content \notin {NoneStr, BlankText}

\* end_session persisted a summary text and the facts of the conversation's
\* user grew by at least the number of facts saved
SummaryAndFactsKept ==
    /\ h_session.saved.summary \notin {NoneStr, ""}
    /\ h_session.save_fault # "update" =>
          db_conversations[EndedConversation.id].summary = h_session.saved.summary
    /\ Len(FactsOfUser(db_facts, EndedConversation.user_id))
          - Len(FactsOfUser(h_session.facts_before, EndedConversation.user_id))
          >= h_session.facts_saved

\* C17 as stated: ending a session of at least four messages with extraction
\* requested and a working completion service persists the conversation with a
\* non-empty summary, and the facts stored for the user grow by at least the
\* number of extracted facts whose save succeeded.
C17_SummaryFromFourMessages ==
    (SessionEnded /\ h_session.extract_learnings
       /\ Len(EndedConversation.messages) >= 4 /\ ServiceWorked) =>
        SummaryAndFactsKept

\* C17 amended: the same for a conversation whose transcript of user and
\* assistant lines has at least 50 characters; below that the extractor makes
\* no request and the conversation is persisted with no summary.
C17_SummaryFromFourMessagesOfFiftyCharacters ==
    (SessionEnded /\ h_session.extract_learnings
       /\ Len(EndedConversation.messages) >= 4 /\ ServiceWorked) =>
        IF TranscriptTooShort(EndedConversation)
        THEN /\ h_session.requests = <<>>
             /\ h_session.saved.summary = NoneStr
             /\ db_facts = h_session.facts_before
        ELSE SummaryAndFactsKept

\* C17 witness: the extraction answered two facts, one of an importance outside
\* the enumeration; one fact was saved for the user, the summary came from the
\* summary request and was persisted
C17_Witness ==
    /\ SessionEnded
    /\ h_session.extract_learnings
    /\ ServiceWorked
    /\ h_session.requests = <<"extraction", "summary">>
    /\ Len(h_session.extraction.facts) = 2
    /\ h_session.facts_saved = 1
    /\ Len(db_facts) = Len(h_session.facts_before) + 1
    /\ h_session.saved.summary = "A short chat."
    /\ h_session.save_fault = "none"
    /\ db_conversations[EndedConversation.id].summary = "A short chat."

\* the steps of end_session after the extractor
ClosingSteps == <<"save_conversation", "increment_conversation_count", "clear">>

IsClosingStep(step) == step \notin ExtractorSteps

\* C18: end_session with an open conversation, whether or not extraction or
\* summary generation failed, hands the conversation to persistence exactly
\* once, then increments the user's conversation counter by exactly one (a
\* failure of the increment is logged, not raised), then clears the session:
\* no current user, no open conversation, no tools.
C18_EndSessionSavesCountsClears ==
    [][(EndSessionStep /\ current_conversation # None) =>
          /\ ~h_session'.raised
          /\ SelectSeq(h_session'.steps, IsClosingStep) = ClosingSteps
          /\ h_session'.saved.id = current_conversation.id
          /\ h_session'.saved.messages = current_conversation.messages
          /\ db_conversations' = SavedConversations(h_session'.saved, h_session'.save_fault)
          /\ db_messages' = SavedMessages(h_session'.saved, h_session'.save_fault)
          /\ db_users' = IF h_session'.increment_fault THEN db_users
                         ELSE [db_users EXCEPT ![current_user.id].total_conversations = @ + 1]
          /\ current_user' = None
          /\ current_conversation' = None
          /\ message_buffer' = <<>>
          /\ tool_registry' = EmptyDict
          /\ tool_definitions' = <<>>]_vars

\* C18 witness: the extraction request and the summary request both faulted;
\* the conversation was saved, the counter went from 0 to 1 and the session
\* was cleared
C18_Witness ==
    /\ SessionEnded
    /\ h_session.requests = <<"extraction", "summary">>
    /\ h_session.extraction.fault
    /\ h_session.summary_llm.fault
    /\ h_session.save_fault = "none"
    /\ db_conversations[EndedConversation.id].ended_at # NoneStr
    /\ ~h_session.increment_fault
    /\ h_session.users_before["u1"].total_conversations = 0
    /\ db_users["u1"].total_conversations = 1
    /\ current_user = None
    /\ current_conversation = None
    /\ tool_registry = EmptyDict

\* the same with the store failing the increment: nothing raised, the counter
\* unchanged, the session cleared
C18_WitnessFailedIncrement ==
    /\ SessionEnded
    /\ h_session.increment_fault
    /\ db_users = h_session.users_before
    /\ current_user = None

----------------------------------------------------------------------------
(* Claims about the start of a session and the system prompt *)

\* the last operation on the session was a start_session
SessionStartAttempted == h_session # None /\ h_session.op = "start_session"

\* C19: start_session loads the stored profile when one exists and creates a
\* profile (placeholder name, role adult) only for an id never seen: create_user
\* is never issued for an id that already has a profile, even when a read of
\* the store fails; it returns the resolved profile.
C19_CreateOnlyForUnseenId ==
    SessionStartAttempted =>
        /\ h_session.create_user => h_session.stored = None
        /\ (~h_session.raised /\ h_session.stored # None) =>
              h_session.returned = h_session.stored
        /\ (~h_session.raised /\ h_session.stored = None) =>
              h_session.returned = NewProfile(h_session.user_id)

\* C19 with the store's reads working
C19_CreateOnlyForUnseenIdWhenReadsWork ==
    (SessionStartAttempted /\ ~(h_session.create_user /\ h_session.stored # None)) =>
        C19_CreateOnlyForUnseenId

\* the system message of the first completion request of the last turn
SystemMessage == h_turn.requests[1].messages[1]

BasePromptMessage == [role |-> "system", content |-> [template |-> "SYSTEM_PROMPT_BASE"]]

\* C20: when the assembly of the user's context fails, the system prompt is the
\* base prompt alone and the turn goes on: the completion request is made with
\* it and the turn is answered. (When the assembly works the prompt carries the
\* user's context.)
C20_ContextFaultGivesBasePrompt ==
    /\ (h_turn # None /\ h_turn.context_fault) =>
          /\ ~h_turn.raised
          /\ Len(h_turn.requests) >= 1
          /\ SystemMessage = BasePromptMessage
          /\ h_turn.reply # <<>>
          /\ h_turn.tool_calls # <<>> =>
                /\ Len(h_turn.results) = Len(h_turn.tool_calls)
                /\ Len(h_turn.requests) = 2
                /\ h_turn.requests[2].messages[1] = BasePromptMessage
    /\ (TurnReplied /\ ~h_turn.context_fault) =>
          /\ SystemMessage.role = "system"
          /\ SystemMessage.content.template = "SYSTEM_PROMPT_WITH_CONTEXT"
          /\ SystemMessage.content.user = h_turn.after.current_user.id

\* C20 witness: the context assembly failed in a session of a stored user; the
\* request went out with the base prompt, its two tool calls were run and the
\* follow-up answered
C20_Witness ==
    /\ TurnReplied
    /\ h_turn.context_fault
    /\ h_turn.before.current_user # None
    /\ SystemMessage = BasePromptMessage
    /\ Len(h_turn.tool_calls) = 2
    /\ Len(h_turn.executed) = 2
    /\ Len(h_turn.requests) = 2
    /\ h_turn.reply = ShortReply

----------------------------------------------------------------------------
(* Claims about the extractor *)

\* end_session ran the extractor and the extraction request returned a JSON object
ExtractionAnswered ==
    /\ SessionEnded
    /\ h_session.extraction # None
    /\ ~h_session.extraction.fault
    /\ h_session.extraction.json = "object"

IsSavedFact(attempt) == attempt.kind = "fact" /\ attempt.saved

\* the rows of table "facts" written for the saved facts of a sequence of attempts
SavedFactRows(attempts, conversation) ==
    LET saved == SelectSeq(attempts, IsSavedFact)
    IN [i \in DOMAIN saved |->
           FactRow(conversation.user_id, saved[i].item.fact, saved[i].item.category,
                   saved[i].item.importance, conversation.id)]

\* the last saved attempt on the preference key of attempt j is attempt k
IsLastWriteOf(attempts, j, k) ==
    /\ k >= j
    /\ attempts[k].kind = "preference"
    /\ attempts[k].saved
    /\ attempts[k].item.category = attempts[j].item.category
    /\ attempts[k].item.key = attempts[j].item.key
    /\ \A l \in DOMAIN attempts :
          (l > k /\ attempts[l].kind = "preference" /\ attempts[l].saved) =>
             <<attempts[l].item.category, attempts[l].item.key>>
                # <<attempts[j].item.category, attempts[j].item.key>>

\* C21: the extractor saves each extracted fact and each extracted preference on
\* its own: every item of the extraction output is attempted exactly once,
\* facts before preferences in the order of the output; an item with an invalid
\* field or whose save fails is skipped, and every other item is saved.
C21_ItemsSavedIndependently ==
    ExtractionAnswered =>
        LET x == h_session.extraction
            a == h_session.attempts
            nf == Len(x.facts)
            np == Len(x.preferences)
        IN /\ Len(a) = nf + np
           /\ \A i \in 1..nf :
                 /\ a[i].kind = "fact"
                 /\ a[i].item = x.facts[i]
                 /\ a[i].saved <=> (/\ x.facts[i].has_fact
                                    /\ x.facts[i].importance \in Importances
                                    /\ ~a[i].fault)
           /\ \A j \in 1..np :
                 /\ a[nf + j].kind = "preference"
                 /\ a[nf + j].item = x.preferences[j]
                 /\ a[nf + j].saved <=> (x.preferences[j].has_key /\ ~a[nf + j].fault)
           /\ db_facts = h_session.facts_before \o SavedFactRows(a, EndedConversation)
           /\ \A j \in nf + 1 .. nf + np :
                 a[j].saved =>
                    \E k \in j .. nf + np :
                       /\ IsLastWriteOf(a, j, k)
                       /\ \E r \in db_preferences :
                             /\ r.user_id = EndedConversation.user_id
                             /\ r.category = a[k].item.category
                             /\ r.key = a[k].item.key
                             /\ r.value = a[k].item.value

\* C21 witness: the save of the first of two valid facts met a store fault, the
\* second fact was saved, and the preference after them was saved
C21_Witness ==
    /\ ExtractionAnswered
    /\ Len(h_session.attempts) = 3
    /\ h_session.attempts[1].fault
    /\ ~h_session.attempts[1].saved
    /\ h_session.attempts[2].saved
    /\ h_session.attempts[3].saved
    /\ Len(db_facts) = Len(h_session.facts_before) + 1
    /\ db_facts[Len(db_facts)].fact = FactTea.fact
    /\ \E r \in db_preferences : r.key = PrefTea.key /\ r.value = PrefTea.value

\* end_session called the extractor
ExtractorCalled == SessionEnded /\ "extract_and_save" \in StepsOf(h_session.steps)

IsDialogueTurn(message) == message.role \in {"user", "assistant"}

\* the length of the dialogue text of a conversation: a line "User: <text>" or
\* "Assistant: <text>" for each user and assistant message, a newline between
\* two lines
RECURSIVE DialogueLength(_)
DialogueLength(turns) ==
    IF turns = <<>> THEN 0
    ELSE (IF Head(turns).role = "user" THEN 4 ELSE 9) + 2 + Len(Head(turns).content.text)
         + (IF Tail(turns) = <<>> THEN 0 ELSE 1 + DialogueLength(Tail(turns)))

DialogueBelowMinimum(conversation) ==
    DialogueLength(SelectSeq(conversation.messages, IsDialogueTurn)) < MinTranscript

\* C22: when the dialogue text of the conversation (user and assistant turns
\* only) is shorter than the minimum length, the extractor makes no completion
\* request, saves nothing, and returns no facts, no preferences and no summary.
C22_ShortDialogueIsNotExtracted ==
    (ExtractorCalled /\ DialogueBelowMinimum(EndedConversation)) =>
        /\ h_session.requests = <<>>
        /\ h_session.attempts = <<>>
        /\ h_session.extracted = [facts |-> <<>>, preferences |-> <<>>, summary |-> NoneStr]
        /\ db_facts = h_session.facts_before
        /\ db_preferences = h_session.preferences_before
        /\ h_session.saved.summary = NoneStr

\* C22 witness: a conversation of five messages, one of them a tool message,
\* whose user and assistant lines make 45 characters, was handed to the
\* extractor, which made no request
C22_Witness ==
    /\ ExtractorCalled
    /\ Len(EndedConversation.messages) = 5
    /\ \E i \in DOMAIN EndedConversation.messages :
          EndedConversation.messages[i].role = "tool"
    /\ DialogueLength(SelectSeq(EndedConversation.messages, IsDialogueTurn)) = 45
    /\ h_session.requests = <<>>
    /\ h_session.saved.summary = NoneStr

\* the extractor attempted the extraction: it made its completion request
ExtractionRan == SessionEnded /\ "extraction" \in StepsOf(h_session.requests)

\* end_session made the separate summary-only completion request
FallbackRequested == SessionEnded /\ "summary" \in StepsOf(h_session.requests)

\* the extraction gave a summary text
SummaryExtracted ==
    ExtractionRan /\ h_session.extracted.summary \notin {NoneStr, ""}

\* the conversation end_session closed is in the store with this summary,
\* unless the store refused the write
PersistedWithSummary(summary) ==
    /\ h_session.saved.summary = summary
    /\ h_session.save_fault # "update" =>
          /\ db_conversations[EndedConversation.id].summary = summary
          /\ db_conversations[EndedConversation.id].ended_at # NoneStr

\* C23: during end_session the summary-only completion request is made if and
\* only if the extraction ran and produced no summary; when that request fails
\* the conversation is persisted without a summary and end_session raises
\* nothing; when the extraction produced a summary no such request is made and
\* the persisted summary is the extracted one.
C23_FallbackSummaryOnlyWithoutExtractedSummary ==
    SessionEnded =>
        /\ FallbackRequested <=> (ExtractionRan /\ ~SummaryExtracted)
        /\ (FallbackRequested /\ h_session.summary_llm.fault) =>
              (PersistedWithSummary(NoneStr) /\ ~h_session.raised)
        /\ SummaryExtracted =>
              (~FallbackRequested /\ PersistedWithSummary(h_session.extracted.summary))

\* C23 witness: the extraction answered an object without summary, the
\* summary request failed, and the conversation was stored with no summary
C23_Witness ==
    /\ ExtractionRan
    /\ ~h_session.extraction.fault
    /\ h_session.extracted.summary = NoneStr
    /\ h_session.requests = <<"extraction", "summary">>
    /\ h_session.summary_llm.fault
    /\ h_session.save_fault = "none"
    /\ ~h_session.raised
    /\ db_conversations[EndedConversation.id].summary = NoneStr
    /\ db_conversations[EndedConversation.id].ended_at # NoneStr

\* C23 second witness: the extraction gave a summary, which was stored, and
\* the extraction request was the only one
C23_WitnessExtracted ==
    /\ SummaryExtracted
    /\ h_session.requests = <<"extraction">>
    /\ h_session.save_fault = "none"
    /\ db_conversations[EndedConversation.id].summary = "Talked about nuts."

----------------------------------------------------------------------------
(* Claims about the store calls of concurrent sessions *)

\* the value of the last write to a key among writes, None when there is none
LastWritten(writes, k) ==
    LET to_key == SelectSeq(writes, LAMBDA w : PreferenceKey(w) = k)
    IN IF to_key = <<>> THEN NoneStr ELSE to_key[Len(to_key)].value

\* the value stored for a key, None when there is no row
StoredValue(k) ==
    LET found == {r \in db_preferences : PreferenceKey(r) = k}
    IN IF found = {} THEN NoneStr ELSE (CHOOSE r \in found : TRUE).value

\* C24: set_preference is an upsert keyed by (user, category, key): after any
\* sequence of successful calls the store holds at most one entry per key, the
\* entry of a key (and what get_preference returns for it) is the value of the
\* last write to that key, so writes to other keys leave it unchanged; with
\* writers running at the same time the value is one of those written.
C24_PreferenceIsLastWritePerKey ==
    /\ \A r1, r2 \in db_preferences : PreferenceKey(r1) = PreferenceKey(r2) => r1 = r2
    /\ \A k \in PreferenceKeys : StoredValue(k) = LastWritten(h_store.writes, k)
    /\ (h_store.got # None /\ ~h_store.got.fault) =>
          h_store.got.value =
              LastWritten(SubSeq(h_store.writes, 1, h_store.got.at),
                          <<h_store.got.user_id, h_store.got.category, h_store.got.key>>)

\* C24 witness: two sessions had different values for one key in flight at the
\* same time, both upserts were applied, the key holds the second value applied
\* in a single row, and get_preference returned it
C24_Witness ==
    /\ h_store.overlapped
    /\ \A s \in Sessions : store_calls[s] = None
    /\ Len(h_store.writes) = 2
    /\ PreferenceKey(h_store.writes[1]) = PreferenceKey(h_store.writes[2])
    /\ h_store.writes[1].value # h_store.writes[2].value
    /\ Cardinality(db_preferences) = 1
    /\ h_store.got # None
    /\ h_store.got.at = 2
    /\ h_store.got.value = h_store.writes[2].value

\* C25: the stored reference count of every fact never decreases, whatever
\* the interleaving of the update_fact_reference calls of different sessions.
C25_ReferenceCountNeverDecreases ==
    [][\A id \in DOMAIN db_facts :
          db_facts'[id].reference_count >= db_facts[id].reference_count]_vars

----------------------------------------------------------------------------
(* Claims about the importance of facts *)

\* attempt i of the last extraction was a fact of an importance outside the
\* enumeration
ForeignImportanceAt(i) ==
    /\ h_session.attempts[i].kind = "fact"
    /\ h_session.attempts[i].item.has_fact
    /\ h_session.attempts[i].item.importance \notin {"low", "normal", "high", "critical"}

\* C27: importance is one of low, normal, high, critical: an extracted fact of
\* any other importance is rejected and not stored, so every stored fact has an
\* importance of that set; the rejection stays inside the extractor, which goes
\* on with the other items, and end_session completes.
C27_StoredImportanceIsEnumerated ==
    /\ \A id \in DOMAIN db_facts :
          db_facts[id].importance \in {"low", "normal", "high", "critical"}
    /\ ExtractionAnswered =>
          \A i \in DOMAIN h_session.attempts :
             ForeignImportanceAt(i) =>
                /\ ~h_session.attempts[i].saved
                /\ \A id \in DOMAIN db_facts :
                      id > Len(h_session.facts_before) =>
                         db_facts[id].fact # h_session.attempts[i].item.fact
                /\ Len(h_session.attempts) = Len(h_session.extraction.facts)
                                             + Len(h_session.extraction.preferences)
                /\ ~h_session.raised
                /\ "save_conversation" \in StepsOf(h_session.steps)

\* C27 witness: the first extracted fact had importance "urgent" and was not
\* stored, the second was stored as a row of importance "normal", and the
\* conversation was closed
C27_Witness ==
    /\ ExtractionAnswered
    /\ ForeignImportanceAt(1)
    /\ h_session.attempts[1].item.importance = "urgent"
    /\ ~h_session.attempts[1].fault
    /\ h_session.attempts[2].saved
    /\ Len(db_facts) = Len(h_session.facts_before) + 1
    /\ db_facts[Len(db_facts)].importance = "normal"
    /\ ~h_session.raised
    /\ current_conversation = None

----------------------------------------------------------------------------
(* Claims about the sessions of the process-wide agent *)

\* the Alexa session whose utterance the last turn processed
TurnSession == CHOOSE s \in AlexaSessions : Utterance(s) = h_turn.input

\* the user messages of a list of messages carry the utterance of one session
OnlyUtterancesOf(session, messages) ==
    \A i \in DOMAIN messages :
        messages[i].role = "user" => messages[i].content = Text(Utterance(session))

\* C28: the short-term buffer is not shared across sessions: with two sessions
\* served in any interleaving by the agent of the process, a turn for one
\* session appends its messages to that session's conversation only, and sends
\* the completion service the messages of that session's conversation only.
C28_NoCrossSessionSharing ==
    (h_turn # None /\ ~h_turn.raised) =>
        /\ h_turn.after.conversation # None =>
              h_turn.after.conversation.alexa_session_id = TurnSession
        /\ \A i \in DOMAIN h_turn.requests :
              OnlyUtterancesOf(TurnSession, h_turn.requests[i].messages)

\* C29: in every reachable state the agent is Idle (no current user, no open
\* conversation) or SessionActive (a current user and an open conversation):
\* the current user is set if and only if short-term memory has an open
\* conversation, also after a store fault part-way through start_session.
C29_IdleOrSessionActive ==
    (current_user # None) <=> (current_conversation # None)

\* short-term memory lets go of the conversation it holds: it holds none, or
\* another one, after the step
ConversationReleased ==
    /\ current_conversation # None
    /\ current_conversation' = None \/ current_conversation'.id # current_conversation.id

\* the step is an end_session that called save_conversation
SavedByStep ==
    /\ EndSessionStep
    /\ "save_conversation" \in StepsOf(h_session'.steps)
    /\ h_session'.saved.id = current_conversation.id

\* C30: a conversation opened at session start is persisted and only then
\* released: short-term memory never drops its reference to a conversation
\* for which save_conversation has not been called, start_session on an
\* active session included.
C30_ReleasedOnlyAfterSave ==
    [][ConversationReleased => SavedByStep]_vars

----------------------------------------------------------------------------
(* Claims about the tools *)

\* C26: every tool's execute, called with any set of named arguments (empty,
\* without a required argument, with an unexpected one), returns a structured
\* result carrying a success flag and raises nothing to its caller.
C26_ExecuteNeverRaises ==
    TurnHadToolCalls =>
        \A k \in DOMAIN h_turn.executed :
            h_turn.executed[k].args.type = "dict" => ~h_turn.executed[k].raised

----------------------------------------------------------------------------
(* Claims about the lifetime of facts *)

\* what a fact is: its text, category, importance, owner and provenance
FactContent(row) ==
    <<row.fact, row.category, row.importance, row.user_id, row.source_conversation>>

\* C31: after its creation a fact is changed only by updates of its reference
\* count and last-referenced stamp: no step alters the text, category,
\* importance, owner or provenance of a stored fact, none deletes a fact, and
\* the stored facts only grow.
C31_FactsKeepTheirContent ==
    [][/\ Len(db_facts') >= Len(db_facts)
       /\ \A id \in DOMAIN db_facts :
             /\ FactContent(db_facts'[id]) = FactContent(db_facts[id])
             /\ db_facts'[id].reference_count >= db_facts[id].reference_count]_vars

\* C31 witness: a fact stored before the session was looked up and marked as
\* used, the session's extraction stored another fact after it, and the first
\* fact still carries its own content
C31_Witness ==
    /\ SessionEnded
    /\ Len(db_facts) >= 2
    /\ Len(h_session.facts_before) >= 1
    /\ Len(db_facts) > Len(h_session.facts_before)
    /\ db_facts[1].reference_count = 1
    /\ db_facts[1].source_conversation = NoneStr
    /\ db_facts[1].importance = "high"
    /\ db_facts[Len(db_facts)].source_conversation = EndedConversation.id

----------------------------------------------------------------------------
(* Claims about the reminder tool *)

\* the N of a time "in N minutes" with N >= 1, 0 for any other time
AskedMinutes(time) ==
    CASE time = "in 30 minutes" -> 30
      [] time = "in 1 minute" -> 1
      [] OTHER -> 0

\* the time asks for a number of minutes no datetime can hold
AsksBeyondDatetime(time) == time = "in 99999999999 minutes"

\* the last call stored exactly one reminder, for the tool's user, with the
\* message given and due n minutes after the call, and returned success
StoredOneReminderIn(n) ==
    /\ h_reminder.result.success
    /\ Len(db_reminders) = Len(h_reminder.before) + 1
    /\ SubSeq(db_reminders, 1, Len(h_reminder.before)) = h_reminder.before
    /\ db_reminders[Len(db_reminders)].user_id = h_reminder.user_id
    /\ db_reminders[Len(db_reminders)].message = h_reminder.message
    /\ db_reminders[Len(db_reminders)].remind_at = h_reminder.called_at + n

\* the last call stored nothing due before the call, and nothing at all when
\* it returned a failure
NothingStoredInThePast ==
    /\ \A i \in DOMAIN db_reminders :
          i > Len(h_reminder.before) => db_reminders[i].remind_at >= h_reminder.called_at
    /\ Len(db_reminders) <= Len(h_reminder.before) + 1
    /\ ~h_reminder.result.success => db_reminders = h_reminder.before
    /\ h_reminder.time \in {"soon", "in a minute", "25:00"} => ~h_reminder.result.success

\* C32 as stated: SetReminder called with "in N minutes", N >= 1, stores
\* exactly one reminder for the bound user with the message given and
\* remind_at = call time + N minutes and returns success; no call stores a
\* reminder due before the call, and a failing call stores nothing.
C32_RelativeReminderStored ==
    h_reminder # None =>
        /\ AskedMinutes(h_reminder.time) >= 1 => StoredOneReminderIn(AskedMinutes(h_reminder.time))
        /\ AsksBeyondDatetime(h_reminder.time) => h_reminder.result.success
        /\ NothingStoredInThePast

\* C32 amended: the same when the store accepts the insert and call time + N
\* minutes is a datetime; when the store raises, or N is beyond the range of
\* datetime, the call returns a failure and stores nothing.
C32_RelativeReminderStoredWhenStoreWorks ==
    h_reminder # None =>
        /\ (AskedMinutes(h_reminder.time) >= 1 /\ ~h_reminder.fault) =>
              StoredOneReminderIn(AskedMinutes(h_reminder.time))
        /\ (h_reminder.fault \/ AsksBeyondDatetime(h_reminder.time)) =>
              (~h_reminder.result.success /\ db_reminders = h_reminder.before)
        /\ NothingStoredInThePast

\* C32 witness: called at 23:59 with "in 30 minutes" for u1, the tool stored one
\* reminder due 30 minutes later, on the next day, after an earlier reminder
C32_Witness ==
    /\ h_reminder # None
    /\ h_reminder.time = "in 30 minutes"
    /\ h_reminder.called_at = 1439
    /\ h_reminder.result.success
    /\ Len(db_reminders) = 2
    /\ db_reminders[2].remind_at = 1469
    /\ db_reminders[2].user_id = "u1"

\* C32 second witness: "in 0 minutes" met a clock that had moved on and was
\* refused as lying in the past
C32_WitnessPast ==
    /\ h_reminder # None
    /\ h_reminder.time = "in 0 minutes"
    /\ h_reminder.checked_at > h_reminder.called_at
    /\ ~h_reminder.fault
    /\ ~h_reminder.result.success
    /\ h_reminder.result.error = "Cannot set reminder in the past"
    /\ db_reminders = h_reminder.before

----------------------------------------------------------------------------
(* Claims about the user of a session *)

\* C33: whenever a session is active (a current user and an open
\* conversation), the owner of the open conversation, the current user and the
\* user the user-bound tools of the registry are bound to are one and the same
\* user id, also after a start_session for another user on an active session
\* and after one that fails part-way.
C33_OneUserPerSession ==
    (current_user # None /\ current_conversation # None) =>
        /\ current_conversation.user_id = current_user.id
        /\ \A name \in UserTools :
              /\ name \in DOMAIN tool_registry
              /\ tool_registry[name].user_id = current_user.id

----------------------------------------------------------------------------
(* Claims about the messages of a completion request *)

\* the message at position i of the list answers a tool call that an assistant
\* message earlier in the list records under the same id
AnswersRecordedCall(messages, i) ==
    \E j \in 1..(i - 1) :
        /\ messages[j].role = "assistant"
        /\ "tool_calls" \in DOMAIN messages[j]
        /\ \E k \in DOMAIN messages[j].tool_calls :
              messages[j].tool_calls[k].id = messages[i].tool_call_id

\* C34: in every completion request of a turn, the initial one and the
\* follow-up, each tool-role message comes after an assistant-role message of
\* the same list that records a tool call with the same correlation id
C34_ToolMessagesFollowTheirCall ==
    (h_turn # None /\ ~h_turn.raised) =>
        \A r \in DOMAIN h_turn.requests :
            \A i \in DOMAIN h_turn.requests[r].messages :
                h_turn.requests[r].messages[i].role = "tool" =>
                    AnswersRecordedCall(h_turn.requests[r].messages, i)

----------------------------------------------------------------------------
(* Claims about the rows of table "messages" *)

\* the rows of table "messages" holding a given message of a conversation
RowsOfMessage(conversation_id, content) ==
    {i \in DOMAIN db_messages :
        /\ db_messages[i].conversation_id = conversation_id
        /\ db_messages[i].content = content}

\* C35: whatever the sequence of add_message, save_progress and
\* end_conversation, each appended message (contents are distinct) is written
\* to table "messages" at most once
C35_MessageWrittenAtMostOnce ==
    \A i \in DOMAIN db_messages :
        Cardinality(RowsOfMessage(db_messages[i].conversation_id, db_messages[i].content)) <= 1

----------------------------------------------------------------------------
(* Claims about ending a session twice *)

RECURSIVE CountedConversations(_)
\* the conversation counters of a set of users added up
CountedConversations(ids) ==
    IF ids = {} THEN 0
    ELSE LET id == CHOOSE u \in ids : TRUE
         IN (IF db_users[id] = None THEN 0 ELSE db_users[id].total_conversations)
            + CountedConversations(ids \ {id})

\* the call follows another end_session with nothing in between
SecondEndSessionStep ==
    /\ h_session # None
    /\ h_session.op = "end_session"
    /\ EndSessionStep

\* C36: an end_session that follows an end_session (the stop handler, then the
\* session-ended handler) adds nothing to the first: no conversation or message
\* is written again, no extraction or completion request runs, no counter
\* moves; and the counters never count more than the sessions started
C36_EndSessionTwiceIsOnce ==
    /\ [](CountedConversations(Users) <= Len(db_conversations))
    /\ [][SecondEndSessionStep =>
            /\ h_session'.steps = <<>>
            /\ h_session'.requests = <<>>
            /\ UNCHANGED <<db_conversations, db_messages, db_users, db_facts,
                           db_preferences>>
            /\ UNCHANGED <<current_user, current_conversation, message_buffer,
                           tool_registry, tool_definitions>>]_vars

\* C36 witness: one session was started, its end persisted the conversation and
\* counted it, and end_session was called once more on the idle agent
C36_Witness ==
    /\ h_session # None
    /\ h_session.op = "end_session"
    /\ ~h_session.active
    /\ h_session.before.current_user = None
    /\ h_session.before.conversation = None
    /\ h_ended # None
    /\ Len(db_conversations) = 1
    /\ db_conversations[1].ended_at # NoneStr
    /\ db_conversations[1].message_count > 0
    /\ CountedConversations(Users) = 1

----------------------------------------------------------------------------
(* Claims about the string process() returns *)

\* C37: every string process() returns is non-empty: an empty or absent
\* completion text is replaced by a fixed default on the direct path and in the
\* tool loop, and truncation to the budget never yields the empty string
C37_ReplyIsNeverEmpty ==
    TurnReplied =>
        /\ h_turn.raw # <<>>
        /\ h_turn.reply # <<>>

\* C37 witness: the follow-up completion of a tool loop came back without text
\* and the budget is 0: "Done." was truncated to the ellipsis
C37_Witness ==
    /\ TurnReplied
    /\ max_response_length = 0
    /\ h_turn.tool_calls # <<>>
    /\ h_turn.followup # None
    /\ ~h_turn.followup.fault
    /\ h_turn.followup.content = <<>>
    /\ h_turn.raw = DoneReply
    /\ h_turn.reply = Ellipsis

\* C37 witness on the direct path: the completion had no text and no tool call
C37_WitnessDirect ==
    /\ TurnReplied
    /\ h_turn.tool_calls = <<>>
    /\ ~h_turn.first.fault
    /\ h_turn.first.content = <<>>
    /\ h_turn.raw = NotSureReply
    /\ h_turn.reply # <<>>

----------------------------------------------------------------------------
(* Claims about what a turn appends to short-term memory *)

\* the last process() call returned on a session with an open conversation
TurnOnSession == TurnReplied /\ h_turn.after.conversation # None

\* what the conversation of the turn had been appended before the call
TurnBase ==
    IF h_turn.before.conversation # None
       /\ h_turn.before.conversation.id = h_turn.after.conversation.id
    THEN h_turn.before.appended
    ELSE <<>>

\* what the call appended
TurnAppended ==
    SubSeq(h_turn.after.appended, Len(TurnBase) + 1, Len(h_turn.after.appended))

\* the tool messages of the processed calls of the turn, in call order
ToolMessagesOfTurn ==
    [i \in DOMAIN h_turn.results |->
        Message("tool", h_turn.results[i], h_turn.tool_calls[i].name,
                h_turn.tool_calls[i].id)]

\* the last message of the first completion request of the turn
LastOfFirstRequest ==
    h_turn.requests[1].messages[Len(h_turn.requests[1].messages)]

\* C38: a process() call on a session appends to short-term memory, in this
\* order, one user message carrying the input, already there when the first
\* completion request is made, one tool message per processed tool call, and
\* one assistant message whose content is the string returned; also when the
\* completion service faults
C38_TurnAppendsUserToolsAssistant ==
    TurnOnSession =>
        /\ Len(TurnBase) <= Len(h_turn.after.appended)
        /\ SubSeq(h_turn.after.appended, 1, Len(TurnBase)) = TurnBase
        /\ TurnAppended =
              <<Message("user", Text(h_turn.input), NoneStr, NoneStr)>>
              \o ToolMessagesOfTurn
              \o <<Message("assistant", Text(h_turn.reply), NoneStr, NoneStr)>>
        /\ Len(h_turn.results) <= Len(h_turn.tool_calls)
        /\ ~h_turn.loop_raised => Len(h_turn.results) = Len(h_turn.tool_calls)
        /\ LastOfFirstRequest = [role |-> "user", content |-> Text(h_turn.input)]

\* C38 witness: on a session that was active before the call, a tool call was
\* processed and answered: the user message, the tool message and the assistant
\* message carrying the reply were appended after the earlier ones
C38_Witness ==
    /\ TurnOnSession
    /\ h_turn.before.current_user # None
    /\ h_turn.before.conversation # None
    /\ h_turn.before.appended # <<>>
    /\ h_turn.tool_calls # <<>>
    /\ h_turn.followup # None
    /\ Len(TurnAppended) = 3
    /\ TurnAppended[2].role = "tool"
    /\ TurnAppended[2].tool_call_id = h_turn.tool_calls[1].id
    /\ TurnAppended[3].content = Text(h_turn.reply)

\* C38 witness for a fault of the first completion request
C38_WitnessFault ==
    /\ TurnOnSession
    /\ h_turn.before.conversation # None
    /\ h_turn.first.fault
    /\ Len(TurnAppended) = 2
    /\ TurnAppended[2].content = Text(ApologyReply)

----------------------------------------------------------------------------
(* Claims about truncating twice *)

\* s is the first Len(s) characters of t
StartsWith(t, s) == Len(s) <= Len(t) /\ SubSeq(t, 1, Len(s)) = s

\* s is a prefix of t, or a prefix of t followed by the ellipsis
PrefixWithOptionalEllipsis(t, s) ==
    \/ StartsWith(t, s)
    \/ /\ Len(s) >= 3
       /\ SubSeq(s, Len(s) - 2, Len(s)) = Ellipsis
       /\ StartsWith(t, SubSeq(s, 1, Len(s) - 3))

\* C39: for every reply and budget, truncating the truncated reply returns it
\* unchanged, also when it ends in the appended ellipsis, and the truncated
\* reply is a prefix of the reply, optionally followed by the ellipsis
C39_TruncationIsIdempotent ==
    TurnReplied =>
        /\ truncate_for_voice(truncate_for_voice(h_turn.raw)) = truncate_for_voice(h_turn.raw)
        /\ VoiceReply(h_turn.reply) = h_turn.reply
        /\ PrefixWithOptionalEllipsis(h_turn.raw, truncate_for_voice(h_turn.raw))
        /\ PrefixWithOptionalEllipsis(h_turn.raw, h_turn.reply)

\* C39 witness: a reply longer than the budget came back as its first B
\* characters and the ellipsis, longer than the budget itself, and truncating
\* that again changes nothing
C39_Witness ==
    /\ TurnReplied
    /\ max_response_length >= 2
    /\ Len(h_turn.raw) > max_response_length
    /\ h_turn.reply = SubSeq(h_turn.raw, 1, max_response_length) \o Ellipsis
    /\ Len(h_turn.reply) > max_response_length
    /\ truncate_for_voice(h_turn.reply) = h_turn.reply
    /\ h_turn.reply # h_turn.raw

----------------------------------------------------------------------------
(* Claims about the conversation counter of a profile *)

\* the step is the update_user of an increment_conversation_count of session s
IncrementWrites(s) ==
    /\ store_calls[s] # None
    /\ store_calls[s].op = "increment_conversation_count"
    /\ store_calls'[s] = None

\* C40: increment_conversation_count changes only the conversation counter of
\* a profile: whatever another session's update it interleaves with, its write
\* leaves every other field of the row as the row has it, and no step ever
\* lowers the counter
C40_IncrementChangesOnlyTheCounter ==
    [][/\ \A s \in Sessions :
             IncrementWrites(s) =>
                 \A u \in Users :
                     db_users[u] # None =>
                         ProfileFields(db_users'[u]) = ProfileFields(db_users[u])
       /\ \A u \in Users :
             db_users[u] # None =>
                 db_users'[u].total_conversations >= db_users[u].total_conversations]_vars

====
